---- MODULE Spec2Model ----
(***************************************************************************)
(* A model of the aggregation and comparison engine of shop_analyzer:      *)
(*   ShopAnalyzer             (src/shop_analyzer.py)                        *)
(*   ShopPerformanceAnalyzer  (src/shop_analyzer_web.py)                    *)
(*                                                                         *)
(* Representation.                                                         *)
(*   text     a sequence of characters, each character a one-element       *)
(*            string; a CJK character is written as its pinyin with tone   *)
(*            number ("chan3" is the character of 'chan pin' = product).   *)
(*   cell     a tagged pair: <<"str", text>>, <<"num", n>>, <<"nan", 0>>,  *)
(*            <<"inf", 1>>, <<"inf", -1>>.                                  *)
(*   number   fixed point.  A raw input cell <<"num", n>> holds n          *)
(*            thousandths; an aggregated (rounded) metric holds            *)
(*            hundredths; a percentage holds hundredths of a percent.      *)
(*   frame    [columns |-> sequence of labels, rows |-> sequence of rows], *)
(*            a row being a sequence of cells, one per column.             *)
(*   table    an aggregated result: [index |-> sequence of labels,         *)
(*            cols |-> function from column name to sequence of cells].    *)
(***************************************************************************)
EXTENDS Integers, Sequences, FiniteSets, TLC

VARIABLES
    df,                 \* ShopAnalyzer.df (month1_df of compare_months)
    df2,                \* month2_df of compare_months
    ret,                \* value returned by the last ShopAnalyzer call
    last,               \* the last call made: <<operation, argument>>
    data,               \* ShopPerformanceAnalyzer.data
    processed_data,     \* ShopPerformanceAnalyzer.processed_data
    current_month,      \* ShopPerformanceAnalyzer.current_month
    previous_month,     \* ShopPerformanceAnalyzer.previous_month
    wret                \* value returned by the last ShopPerformanceAnalyzer call

vars == <<df, df2, ret, last, data, processed_data, current_month, previous_month, wret>>

shopVars == <<df, df2, ret, last>>
webVars == <<data, processed_data, current_month, previous_month, wret>>

(***************************************************************************)
(* Cells                                                                   *)
(***************************************************************************)
Num(n) == <<"num", n>>
Str(s) == <<"str", s>>
NaN == <<"nan", 0>>
PosInf == <<"inf", 1>>
NegInf == <<"inf", -1>>

IsNum(v) == v[1] = "num"
IsNaN(v) == v[1] = "nan"
IsInf(v) == v[1] = "inf"
IsFinite(v) == IsNum(v)

\* outcomes of a call: the returned table, None, or the exception raised;
\* NoCall before any call
None == <<"None", 0>>
NoCall == <<"nocall", 0>>
Raised(e) == <<"raise", e>>
Returned(t) == <<"table", t>>

IsTable(r) == r[1] = "table"

Abs(n) == IF n < 0 THEN -n ELSE n

RECURSIVE SumSeq(_)
SumSeq(s) == IF s = <<>> THEN 0 ELSE Head(s) + SumSeq(Tail(s))

Range(s) == {s[i] : i \in DOMAIN s}

(***************************************************************************)
(* Text order (code point order of the characters used in cell values).    *)
(***************************************************************************)
Alphabet ==
    <<"0", "1", "2", "3", "4", "5", "6", "7", "8", "9",
      "A", "B", "C", "D", "E", "F", "G", "L", "M", "S", "X", "_", "a", "n",
      "zhun3", "wei4", "biao1", "zhi1", "ma3", "shen1", "gao1">>

Ord(c) == CHOOSE i \in DOMAIN Alphabet : Alphabet[i] = c

RECURSIVE TextLess(_, _)
TextLess(a, b) ==
    IF b = <<>> THEN FALSE
    ELSE IF a = <<>> THEN TRUE
    ELSE IF Head(a) = Head(b) THEN TextLess(Tail(a), Tail(b))
    ELSE Ord(Head(a)) < Ord(Head(b))

\* order of index labels: numbers by value, text lexicographically
LabelLess(a, b) ==
    IF a[1] = "num" /\ b[1] = "num" THEN a[2] < b[2]
    ELSE IF a[1] = "str" /\ b[1] = "str" THEN TextLess(a[2], b[2])
    ELSE a[1] = "num"

(***************************************************************************)
(* Column Resolver: ShopAnalyzer.detect_columns                            *)
(***************************************************************************)
\* substring test: Python's `word in str(col)`
Contains(word, text) ==
    \E i \in 0..(Len(text) - Len(word)) : SubSeq(text, i + 1, i + Len(word)) = word

\* the role table of detect_columns, in dictionary (insertion) order
Roles == <<"product", "size", "quantity", "amount", "shipping", "date">>

\* the keyword lists; CJK characters in pinyin
keywords ==
    [product |->
        << <<"chan3", "pin3">>, <<"pin3", "ming2">>, <<"shang1", "pin3">>,
           <<"huo4", "pin3">>, <<"ming2", "cheng1">>,
           <<"p", "r", "o", "d", "u", "c", "t">>, <<"i", "t", "e", "m">> >>,
     size |->
        << <<"chi3", "cun4">>, <<"gui1", "ge2">>, <<"s", "i", "z", "e">>,
           <<"gui1", "ge2", "chi3", "cun4">> >>,
     quantity |->
        << <<"shu4", "liang4">>, <<"jian4", "shu4">>, <<"xiao1", "liang4">>,
           <<"q", "u", "a", "n", "t", "i", "t", "y">>, <<"q", "t", "y">>,
           <<"shu4", "liang4", "(", "jian4", ")">> >>,
     amount |->
        << <<"jin1", "e2">>, <<"xiao1", "shou4", "e2">>, <<"shou1", "ru4">>,
           <<"a", "m", "o", "u", "n", "t">>, <<"s", "a", "l", "e", "s">>,
           <<"jin1", "e2", "(", "yuan2", ")">>,
           <<"xiao1", "shou4", "e2", "(", "yuan2", ")">> >>,
     shipping |->
        << <<"yun4", "fei4">>, <<"you2", "fei4">>, <<"kuai4", "di4", "fei4">>,
           <<"s", "h", "i", "p", "p", "i", "n", "g">>,
           <<"yun4", "fei4", "(", "yuan2", ")">> >>,
     date |->
        << <<"ri4", "qi1">>, <<"shi2", "jian1">>, <<"d", "a", "t", "e">>,
           <<"shi2", "jian1">>, <<"yue4", "fen4">>, <<"m", "o", "n", "t", "h">> >>]

\* col_lower = str(col).lower(), for the capital letters of the labels used
Lower(text) ==
    LET low(c) == CASE c = "A" -> "a" [] c = "M" -> "m" [] c = "N" -> "n"
                    [] c = "O" -> "o" [] c = "P" -> "p" [] c = "S" -> "s"
                    [] c = "T" -> "t" [] c = "U" -> "u" [] OTHER -> c
    IN  [i \in DOMAIN text |-> low(text[i])]

\* a test of the keywords against the lowercased copy of the label
AnyWordIn_Lowercased(role, col) ==
    \E w \in Range(keywords[role]) : Contains(w, Lower(col))

\* any(word in str(col) for word in words)
AnyWordIn(role, col) == \E w \in Range(keywords[role]) : Contains(w, col)

\* an inner loop without `break`: the last role one of whose words occurs in
\* the label keeps the column; 0 if none
ClaimingRole_LastRole(col) ==
    IF \E k \in DOMAIN Roles : AnyWordIn(Roles[k], col)
    THEN CHOOSE k \in DOMAIN Roles :
            /\ AnyWordIn(Roles[k], col)
            /\ \A j \in (k + 1)..Len(Roles) : ~AnyWordIn(Roles[j], col)
    ELSE 0

\* the inner loop over keywords.items() for one column: the first role one of
\* whose words occurs in the label claims the column (then `break`); 0 if none
ClaimingRole(col) ==
    IF \E k \in DOMAIN Roles : AnyWordIn(Roles[k], col)
    THEN CHOOSE k \in DOMAIN Roles :
            /\ AnyWordIn(Roles[k], col)
            /\ \A j \in 1..(k - 1) : ~AnyWordIn(Roles[j], col)
    ELSE 0

\* an outer loop in which a later column replaces the one already mapped
RECURSIVE DetectFrom_LastWins(_, _, _)
DetectFrom_LastWins(columns, i, col_mapping) ==
    IF i > Len(columns) THEN col_mapping
    ELSE LET k == ClaimingRole(columns[i])
         IN  IF k = 0 THEN DetectFrom_LastWins(columns, i + 1, col_mapping)
             ELSE DetectFrom_LastWins(columns, i + 1,
                                      (Roles[k] :> columns[i]) @@ col_mapping)

\* the outer loop, from column i on, with the mapping built so far
RECURSIVE DetectFrom(_, _, _)
DetectFrom(columns, i, col_mapping) ==
    IF i > Len(columns) THEN col_mapping
    ELSE LET k == ClaimingRole(columns[i])
         IN  IF k = 0 THEN DetectFrom(columns, i + 1, col_mapping)
             ELSE IF Roles[k] \in DOMAIN col_mapping
             THEN DetectFrom(columns, i + 1, col_mapping)
             ELSE DetectFrom(columns, i + 1, col_mapping @@ (Roles[k] :> columns[i]))

EmptyMap == [r \in {} |-> <<>>]

detect_columns(frame) == DetectFrom(frame.columns, 1, EmptyMap)

\* dict.get(key): the mapped label, or the empty text standing for None
\* (both are falsy in `if not group_col` / `if amount_col`)
Get(col_mapping, role) ==
    IF role \in DOMAIN col_mapping THEN col_mapping[role] ELSE <<>>

(***************************************************************************)
(* Frames, rounding and float division                                     *)
(***************************************************************************)
HasColumn(frame, label) == \E i \in DOMAIN frame.columns : frame.columns[i] = label

ColIndex(frame, label) ==
    CHOOSE i \in DOMAIN frame.columns :
        /\ frame.columns[i] = label
        /\ \A j \in 1..(i - 1) : frame.columns[j] # label

\* df[label]
Column(frame, label) ==
    [r \in DOMAIN frame.rows |-> frame.rows[r][ColIndex(frame, label)]]

\* df[label] = values: overwrite the column, or append a new one
SetColumn(frame, label, values) ==
    IF HasColumn(frame, label)
    THEN [frame EXCEPT !.rows =
            [r \in DOMAIN frame.rows |->
                [frame.rows[r] EXCEPT ![ColIndex(frame, label)] = values[r]]]]
    ELSE [columns |-> Append(frame.columns, label),
          rows |-> [r \in DOMAIN frame.rows |-> Append(frame.rows[r], values[r])]]

\* the decimal digits of a natural number
RECURSIVE IntText(_)
IntText(n) ==
    LET digit == <<"0", "1", "2", "3", "4", "5", "6", "7", "8", "9">>[(n % 10) + 1]
    IN  IF n < 10 THEN <<digit>> ELSE IntText(n \div 10) \o <<digit>>

\* Series.astype(str): text stays, a missing value prints as 'nan', a whole
\* number of an integer column prints its digits
astype_str(cell) ==
    IF cell[1] = "str" THEN cell[2]
    ELSE IF cell[1] = "num"
    THEN IF cell[2] < 0 THEN <<"-">> \o IntText((-cell[2]) \div 1000)
         ELSE IntText(cell[2] \div 1000)
    ELSE <<"n", "a", "n">>

\* the nearest integer to n / d for d > 0, a tie going to the even neighbour
\* (numpy rint, behind DataFrame.round and Series.round)
RoundHalfEven(n, d) ==
    LET q == n \div d
        r == n - q * d
    IN  IF 2 * r < d THEN q
        ELSE IF 2 * r > d THEN q + 1
        ELSE IF q % 2 = 0 THEN q ELSE q + 1

\* .round(2) of a sum of raw values: thousandths to hundredths
Round2(thousandths) == RoundHalfEven(thousandths, 10)

\* a share that is cut off after 2 decimals instead of rounded
PctOfTotal_Truncated(value, total) ==
    IF total = 0
    THEN IF value = 0 THEN NaN ELSE IF value > 0 THEN PosInf ELSE NegInf
    ELSE IF total > 0 THEN Num((value * 10000) \div total)
    ELSE Num(((-value) * 10000) \div (-total))

\* a share that maps a zero total to 0 instead of dividing
PctOfTotal_ZeroGuard(value, total) ==
    IF total = 0 THEN Num(0)
    ELSE IF total > 0 THEN Num(RoundHalfEven(value * 10000, total))
    ELSE Num(RoundHalfEven((-value) * 10000, -total))

\* (value / total * 100).round(2) of two numbers in the same unit, as a cell
\* holding hundredths of a percent; float division by zero gives nan or +-inf
PctOfTotal(value, total) ==
    IF total = 0
    THEN IF value = 0 THEN NaN ELSE IF value > 0 THEN PosInf ELSE NegInf
    ELSE IF total > 0 THEN Num(RoundHalfEven(value * 10000, total))
    ELSE Num(RoundHalfEven((-value) * 10000, -total))

(***************************************************************************)
(* groupby / sum / sort_values                                             *)
(***************************************************************************)
\* the sorted sequence of the members of a set of labels
RECURSIVE SortedLabels(_)
SortedLabels(S) ==
    IF S = {} THEN <<>>
    ELSE LET m == CHOOSE x \in S : \A y \in S \ {x} : LabelLess(x, y)
         IN  <<m>> \o SortedLabels(S \ {m})

\* the group keys of df.groupby(group_col): distinct, sorted, missing keys dropped
GroupKeys(frame, group_col) ==
    SortedLabels({c \in Range(Column(frame, group_col)) : ~IsNaN(c)})

\* a grouping that ignores the key: every row is added to every group
RECURSIVE SumRows_AnyKey(_, _, _, _)
SumRows_AnyKey(keycol, valcol, key, r) ==
    IF r = 0 THEN 0
    ELSE SumRows_AnyKey(keycol, valcol, key, r - 1)
         + (IF IsNum(valcol[r]) THEN valcol[r][2] ELSE 0)

\* 'sum' of a numeric column over the rows of one group (missing values skipped)
RECURSIVE SumRows(_, _, _, _)
SumRows(keycol, valcol, key, r) ==
    IF r = 0 THEN 0
    ELSE SumRows(keycol, valcol, key, r - 1)
         + (IF keycol[r] = key /\ IsNum(valcol[r]) THEN valcol[r][2] ELSE 0)

GroupSum(frame, group_col, val_col, key) ==
    SumRows(Column(frame, group_col), Column(frame, val_col), key, Len(frame.rows))

\* the comparison of an ascending sort
Before_Ascending(a, b) ==
    IF IsNaN(a) THEN FALSE
    ELSE IF IsNaN(b) THEN TRUE
    ELSE IF IsInf(a) THEN a[2] = -1 /\ b # NegInf
    ELSE IF IsInf(b) THEN b[2] = 1
    ELSE a[2] < b[2]

\* a before b in a descending sort; missing values go last
Before(a, b) ==
    IF IsNaN(a) THEN FALSE
    ELSE IF IsNaN(b) THEN TRUE
    ELSE IF IsInf(a) THEN a[2] = 1 /\ b # PosInf
    ELSE IF IsInf(b) THEN b[2] = -1
    ELSE a[2] > b[2]

\* stable insertion of position i into the ordered positions perm
RECURSIVE InsertPos(_, _, _)
InsertPos(perm, i, values) ==
    IF perm = <<>> THEN <<i>>
    ELSE IF Before(values[i], values[Head(perm)]) THEN <<i>> \o perm
    ELSE <<Head(perm)>> \o InsertPos(Tail(perm), i, values)

RECURSIVE SortPositions(_, _)
SortPositions(values, n) ==
    IF n = 0 THEN <<>> ELSE InsertPos(SortPositions(values, n - 1), n, values)

\* the row order of sort_values(by, ascending=False)
DescendingOrder(values) == SortPositions(values, Len(values))

Permute(seq, perm) == [i \in DOMAIN perm |-> seq[perm[i]]]

\* table.sort_values(by, ascending=False)
sort_values(table, by) ==
    LET perm == DescendingOrder(table.cols[by])
    IN  [index |-> Permute(table.index, perm),
         cols |-> [c \in DOMAIN table.cols |-> Permute(table.cols[c], perm)]]

(***************************************************************************)
(* Metric Aggregator: ShopAnalyzer.analyze_product_performance             *)
(***************************************************************************)
\* the values of the group_by argument that select a mode
MODE_PRODUCT == <<"p", "r", "o", "d", "u", "c", "t">>
MODE_PRODUCT_SIZE == <<"p", "r", "o", "d", "u", "c", "t", "_", "s", "i", "z", "e">>

\* the label of the synthesized composite column, 'chan pin _ chi cun'
COMPOSITE == <<"chan3", "pin3", "_", "chi3", "cun4">>

\* column names of the result table (pinyin of the source's names):
\* sales, quantity, shipping, sales share (%), quantity share (%)
XIAOSHOUE == "xiaoshoue"
XIAOLIANG == "xiaoliang"
YUNFEI == "yunfei"
XIAOSHOUE_ZHANBI == "xiaoshoue_zhanbi"
XIAOLIANG_ZHANBI == "xiaoliang_zhanbi"

\* product value + '_' + size value, both coerced to text
CompositeKeys(frame, col_map) ==
    LET p == Column(frame, col_map["product"])
        z == Column(frame, col_map["size"])
    IN  [r \in DOMAIN frame.rows |-> Str(astype_str(p[r]) \o <<"_">> \o astype_str(z[r]))]

\* the frame after the grouping column has been determined (mode
\* 'product_size' stores the composite column in self.df)
FrameAfterGrouping(frame, col_map, group_by) ==
    IF /\ group_by = MODE_PRODUCT_SIZE
       /\ "product" \in DOMAIN col_map
       /\ "size" \in DOMAIN col_map
    THEN SetColumn(frame, COMPOSITE, CompositeKeys(frame, col_map))
    ELSE frame

\* a grouping column that ignores the size role in mode 'product_size'
GroupColumn_ProductOnly(col_map, group_by) ==
    IF group_by = MODE_PRODUCT THEN Get(col_map, "product")
    ELSE IF group_by = MODE_PRODUCT_SIZE THEN Get(col_map, "product")
    ELSE group_by

\* group_col
GroupColumn(col_map, group_by) ==
    IF group_by = MODE_PRODUCT THEN Get(col_map, "product")
    ELSE IF group_by = MODE_PRODUCT_SIZE
    THEN IF "product" \in DOMAIN col_map /\ "size" \in DOMAIN col_map
         THEN COMPOSITE
         ELSE Get(col_map, "product")
    ELSE group_by

\* agg_dict: result column name -> source column label, for the resolved roles
AggDict(col_map) ==
    LET entry(role, name) ==
            IF Get(col_map, role) # <<>> THEN (name :> col_map[role]) ELSE EmptyMap
    IN  entry("amount", XIAOSHOUE) @@ entry("quantity", XIAOLIANG)
        @@ entry("shipping", YUNFEI)

\* df.groupby(group_col).agg(sum).round(2), columns renamed
GroupedSums(frame, group_col, agg_dict) ==
    LET keys == GroupKeys(frame, group_col)
    IN  [index |-> keys,
         cols |-> [name \in DOMAIN agg_dict |->
                    [i \in DOMAIN keys |->
                        Num(Round2(GroupSum(frame, group_col, agg_dict[name], keys[i])))]]]

\* Series.sum() of a column of finite cells
ColumnTotal(col) == SumSeq([i \in DOMAIN col |-> col[i][2]])

\* result[pct] = (result[of] / result[of].sum() * 100).round(2), when present
WithShare(table, of, pct) ==
    IF of \in DOMAIN table.cols
    THEN [table EXCEPT !.cols =
            (pct :> [i \in DOMAIN table.index |->
                        PctOfTotal(table.cols[of][i][2], ColumnTotal(table.cols[of]))])
            @@ table.cols]
    ELSE table

\* the final ordering: by sales if present, else by quantity if present
Ordered(table) ==
    IF XIAOSHOUE \in DOMAIN table.cols THEN sort_values(table, XIAOSHOUE)
    ELSE IF XIAOLIANG \in DOMAIN table.cols THEN sort_values(table, XIAOLIANG)
    ELSE table

\* the call: [ret |-> returned value or raised error, df |-> self.df afterwards]
analyze_product_performance(frame, group_by) ==
    LET col_map == detect_columns(frame)
        frame2 == FrameAfterGrouping(frame, col_map, group_by)
        group_col == GroupColumn(col_map, group_by)
        agg_dict == AggDict(col_map)
    IN  IF DOMAIN col_map = {} THEN [ret |-> None, df |-> frame]
        ELSE IF group_col = <<>> THEN [ret |-> None, df |-> frame2]
        ELSE IF DOMAIN agg_dict = {} THEN [ret |-> None, df |-> frame2]
        ELSE IF ~HasColumn(frame2, group_col)
        THEN [ret |-> Raised("KeyError"), df |-> frame2]
        ELSE IF \E name \in DOMAIN agg_dict : agg_dict[name] = group_col
        THEN [ret |-> Raised("KeyError"), df |-> frame2]
        ELSE [ret |-> Returned(Ordered(
                        WithShare(WithShare(GroupedSums(frame2, group_col, agg_dict),
                                            XIAOSHOUE, XIAOSHOUE_ZHANBI),
                                  XIAOLIANG, XIAOLIANG_ZHANBI))),
              df |-> frame2]

(***************************************************************************)
(* Input data sets of ShopAnalyzer                                         *)
(***************************************************************************)
MaxRows == 3

\* column labels of the input sheets
L_CHANPIN == <<"chan3", "pin3">>                 \* product
L_PINMING == <<"pin3", "ming2">>                 \* product (item name)
L_PRODUCT_CAP == <<"P", "r", "o", "d", "u", "c", "t">>
L_CHICUN == <<"chi3", "cun4">>                   \* size
L_JINE == <<"jin1", "e2">>                       \* amount
L_SHULIANG == <<"shu4", "liang4">>               \* quantity
L_YUNFEI == <<"yun4", "fei4">>                   \* shipping
L_BEIZHU == <<"bei4", "zhu4">>                   \* remark
L_NAME == <<"n", "a", "m", "e">>

\* the cells a column of each kind may hold (raw numbers in thousandths)
ProductCells == {Str(<<"A">>), Str(<<"B">>)}
SizeCells == {Str(<<"S">>), Str(<<"M">>)}
SmallAmountCells == {Num(5), Num(1000)}
SignedAmountCells == {Num(-1000), Num(1000)}
AmountCells == SmallAmountCells \cup SignedAmountCells
QuantityCells == {Num(0), Num(1000)}
ShippingCells == {Num(0), Num(500)}
RemarkCells == {Str(<<"X">>)}

\* a sheet layout: the labels and, per column, the cells it may hold
Layout(labels, cells) == [labels |-> labels, cells |-> cells]

Layouts ==
    { Layout(<<L_CHANPIN, L_JINE, L_SHULIANG>>, <<ProductCells, SmallAmountCells, QuantityCells>>),
      Layout(<<L_CHANPIN, L_CHICUN, L_JINE>>, <<ProductCells, SizeCells, SignedAmountCells>>),
      Layout(<<L_PINMING, L_SHULIANG>>, <<ProductCells, QuantityCells>>),
      Layout(<<L_CHANPIN, L_YUNFEI>>, <<ProductCells, ShippingCells>>),
      Layout(<<L_PRODUCT_CAP, L_JINE>>, <<ProductCells, AmountCells>>),
      Layout(<<L_CHANPIN, L_BEIZHU>>, <<ProductCells, RemarkCells>>),
      Layout(<<L_NAME, L_BEIZHU>>, <<ProductCells, RemarkCells>>),
      Layout(<<L_CHICUN, L_JINE>>, <<SizeCells, AmountCells>>) }

\* all rows of a layout
RowsOf(layout) ==
    {row \in [DOMAIN layout.labels -> UNION Range(layout.cells)] :
        \A c \in DOMAIN layout.labels : row[c] \in layout.cells[c]}

\* frame is a sheet of the layout with at most n rows
IsFrameOf(frame, layout, n) ==
    \E k \in 0..n : \E rows \in [1..k -> RowsOf(layout)] :
        frame = [columns |-> layout.labels, rows |-> rows]

EmptyFrame == [columns |-> <<>>, rows |-> <<>>]

\* the group_by arguments tried: the two modes and two arbitrary columns
GroupByArgs == {MODE_PRODUCT, MODE_PRODUCT_SIZE, L_CHICUN, L_JINE}

(***************************************************************************)
(* ShopAnalyzer as a state machine                                         *)
(***************************************************************************)
WebIdle ==
    /\ data = EmptyFrame
    /\ processed_data = None
    /\ current_month = None
    /\ previous_month = None
    /\ wret = NoCall

Init ==
    /\ \E layout \in Layouts : IsFrameOf(df, layout, MaxRows)
    /\ df2 = EmptyFrame
    /\ ret = NoCall
    /\ last = <<"init", <<>>>>
    /\ WebIdle

\* analyzer.analyze_product_performance(group_by)
AnalyzeProductPerformance(group_by) ==
    LET r == analyze_product_performance(df, group_by)
    IN  /\ ret' = r.ret
        /\ df' = r.df
        /\ last' = <<"analyze_product_performance", group_by>>
        /\ UNCHANGED <<df2, webVars>>

Next == \E g \in GroupByArgs : AnalyzeProductPerformance(g)

Spec == Init /\ [][Next]_vars

(***************************************************************************)
(* Properties of analyze_product_performance                               *)
(***************************************************************************)
LastAnalyze == last[1] = "analyze_product_performance"

\* what the last call grouped by, and the role mapping it worked with
LastColMap == detect_columns(df)
LastGroupCol == GroupColumn(LastColMap, last[2])

\* the sum of a function over a finite set
RECURSIVE SetSum(_, _)
SetSum(f, S) ==
    IF S = {} THEN 0
    ELSE LET x == CHOOSE y \in S : TRUE IN f[x] + SetSum(f, S \ {x})

\* the raw rows carrying a key, and the exact sum of a column over them
RowsWithKey(frame, group_col, key) ==
    {r \in DOMAIN frame.rows : Column(frame, group_col)[r] = key}

RawSum(frame, group_col, val_col, key) ==
    SetSum([r \in DOMAIN frame.rows |-> Column(frame, val_col)[r][2]],
           RowsWithKey(frame, group_col, key))

\* v hundredths is s thousandths rounded to 2 decimals (ties to even)
IsRounded2(v, s) ==
    /\ Abs(10 * v - s) <= 5
    /\ Abs(10 * v - s) = 5 => v % 2 = 0

MetricOfRole == [amount |-> XIAOSHOUE, quantity |-> XIAOLIANG, shipping |-> YUNFEI]

NonIncreasing(col) ==
    \A i, j \in DOMAIN col : i < j => col[i][2] >= col[j][2]

Modes == {MODE_PRODUCT, MODE_PRODUCT_SIZE}

\* C9 (as claimed): whenever no valid grouping key or no numeric role is
\* available, the call returns None: empty role mapping, product unresolved
\* in a mode, no numeric role, or group_by naming a column that does not exist.
C9_AbsentNeverRaised ==
    LastAnalyze =>
        LET col_map == LastColMap
        IN  (\/ DOMAIN col_map = {}
             \/ last[2] \in Modes /\ "product" \notin DOMAIN col_map
             \/ DOMAIN col_map \cap DOMAIN MetricOfRole = {}
             \/ last[2] \notin Modes /\ ~HasColumn(df, last[2]))
            => ret = None

\* C10: when a metric sums to zero over all groups the table is still
\* returned and every value of its share column is nan or +-inf.
ZeroTotalShare(t, of, pct) ==
    (of \in DOMAIN t.cols /\ ColumnTotal(t.cols[of]) = 0) =>
        /\ pct \in DOMAIN t.cols
        /\ \A i \in DOMAIN t.index : IsNaN(t.cols[pct][i]) \/ IsInf(t.cols[pct][i])

\* the inputs of a successful call in mode 'product'
ProductCallInputs ==
    /\ LastAnalyze /\ last[2] = MODE_PRODUCT
    /\ LET col_map == LastColMap
       IN  /\ "product" \in DOMAIN col_map
           /\ DOMAIN col_map \cap DOMAIN MetricOfRole # {}

MaxGroups == 5

GroupNames == <<"A", "B", "C", "D", "E", "F", "G">>
ShareAmounts == {-1000, 1000, 3000}

\* the number of the product of row i, when step[j] = 1 marks the rows that
\* start the next product
RECURSIVE ProductNumber(_, _)
ProductNumber(step, i) ==
    IF i = 1 THEN 1 ELSE ProductNumber(step, i - 1) + step[i]

ListedFrame(step, amount) ==
    [columns |-> <<L_CHANPIN, L_JINE>>,
     rows |-> [i \in DOMAIN step |->
                <<Str(<<GroupNames[ProductNumber(step, i)]>>), Num(amount[i])>>]]

InitPct ==
    /\ \E k \in 1..MaxGroups :
         \E step \in [1..k -> {0, 1}], amount \in [1..k -> ShareAmounts] :
            /\ step[1] = 0
            /\ df = ListedFrame(step, amount)
    /\ df2 = EmptyFrame
    /\ ret = NoCall
    /\ last = <<"init", <<>>>>
    /\ WebIdle

NextPct == AnalyzeProductPerformance(MODE_PRODUCT)

SpecPct == InitPct /\ [][NextPct]_vars

\* the sum of the sales-share column, in hundredths of a percent
ShareSum(t) == SumSeq([i \in DOMAIN t.index |-> t.cols[XIAOSHOUE_ZHANBI][i][2]])

\* a returned table with resolved amount role and non-zero total amount
SharesDefined ==
    /\ LastAnalyze /\ IsTable(ret)
    /\ XIAOSHOUE \in DOMAIN ret[2].cols
    /\ ColumnTotal(ret[2].cols[XIAOSHOUE]) # 0

\* C1 (as claimed): with resolved amount role and non-zero total, the values
\* of the sales-share column sum to 100 within +-0.01, for any number of groups.
C1_SumWithinOneHundredth ==
    SharesDefined =>
        /\ \A i \in DOMAIN ret[2].index : IsNum(ret[2].cols[XIAOSHOUE_ZHANBI][i])
        /\ Abs(ShareSum(ret[2]) - 10000) <= 1

\* C1 (amended): with resolved amount role and non-zero total, the values of
\* the sales-share column sum to 100 within +-0.005 per group, that is
\* |sum - 100| <= 0.005 * (number of groups).
C1_SumWithinHalfHundredthPerGroup ==
    SharesDefined =>
        /\ \A i \in DOMAIN ret[2].index : IsNum(ret[2].cols[XIAOSHOUE_ZHANBI][i])
        /\ 2 * Abs(ShareSum(ret[2]) - 10000) <= Len(ret[2].index)

\* C1 witness: at least three groups whose rounded shares do not sum to 100
C1_Witness ==
    /\ SharesDefined
    /\ Len(ret[2].index) >= 3
    /\ ShareSum(ret[2]) # 10000

(***************************************************************************)
(* Period Comparator: ShopAnalyzer.compare_months                          *)
(***************************************************************************)
\* column names of the comparison table: product, last month's sales, this
\* month's sales, sales change, sales change rate (%), and the same for quantity
CHANPIN == "chanpin"
SHANGYUE_XIAOSHOUE == "shangyue_xiaoshoue"
BENYUE_XIAOSHOUE == "benyue_xiaoshoue"
XIAOSHOUE_BIANHUA == "xiaoshoue_bianhua"
XIAOSHOUE_BIANHUALV == "xiaoshoue_bianhualv"
SHANGYUE_XIAOLIANG == "shangyue_xiaoliang"
BENYUE_XIAOLIANG == "benyue_xiaoliang"
XIAOLIANG_BIANHUA == "xiaoliang_bianhua"
XIAOLIANG_BIANHUALV == "xiaoliang_bianhualv"

\* the RangeIndex 0..n-1 that `comparison['chanpin'] = result1.index` gives the
\* empty frame (whole numbers, in the unit of raw cells)
RangeIndex(n) == [i \in 1..n |-> Num(1000 * (i - 1))]

\* a Series: [index |-> labels, values |-> cells]
Series(index, values) == [index |-> index, values |-> values]

\* series.reindex(labels, fill_value): the value at each label, fill if absent
Reindex(series, labels, fill) ==
    [i \in DOMAIN labels |->
        IF \E j \in DOMAIN series.index : series.index[j] = labels[i]
        THEN series.values[CHOOSE j \in DOMAIN series.index : series.index[j] = labels[i]]
        ELSE fill]

\* a - b on cells (nan propagates)
CellSub(a, b) == IF IsNum(a) /\ IsNum(b) THEN Num(a[2] - b[2]) ELSE NaN

\* (change / prev.replace(0, nan) * 100).round(2)
ChangeRate(change, prev) ==
    IF ~IsNum(change) \/ ~IsNum(prev) THEN NaN
    ELSE IF prev[2] = 0 THEN NaN
    ELSE IF prev[2] > 0 THEN Num(RoundHalfEven(change[2] * 10000, prev[2]))
    ELSE Num(RoundHalfEven((-change[2]) * 10000, -prev[2]))

\* the four columns merged for one metric; column assignment aligns the
\* assigned Series with the index of `comparison`
MergedColumns(result1, result2, rows, metric, prev, cur, change, rate) ==
    IF metric \in DOMAIN result1.cols /\ metric \in DOMAIN result2.cols
    THEN LET s1 == Series(result1.index, result1.cols[metric])
             s2 == Series(result2.index, result2.cols[metric])
             s2r == Series(result1.index, Reindex(s2, result1.index, Num(0)))
             p == Reindex(s1, rows, NaN)
             c == Reindex(s2r, rows, NaN)
             d == [i \in DOMAIN rows |-> CellSub(c[i], p[i])]
         IN  (prev :> p) @@ (cur :> c) @@ (change :> d)
             @@ (rate :> [i \in DOMAIN rows |-> ChangeRate(d[i], p[i])])
    ELSE EmptyMap

\* the comparison frame before sorting
Merged(result1, result2) ==
    LET rows == RangeIndex(Len(result1.index))
    IN  [index |-> rows,
         cols |-> (CHANPIN :> result1.index)
                  @@ MergedColumns(result1, result2, rows, XIAOSHOUE, SHANGYUE_XIAOSHOUE,
                                   BENYUE_XIAOSHOUE, XIAOSHOUE_BIANHUA, XIAOSHOUE_BIANHUALV)
                  @@ MergedColumns(result1, result2, rows, XIAOLIANG, SHANGYUE_XIAOLIANG,
                                   BENYUE_XIAOLIANG, XIAOLIANG_BIANHUA, XIAOLIANG_BIANHUALV)]

\* the final ordering of the comparison
OrderedComparison(comparison) ==
    IF XIAOSHOUE_BIANHUA \in DOMAIN comparison.cols
    THEN sort_values(comparison, XIAOSHOUE_BIANHUA)
    ELSE IF XIAOLIANG_BIANHUA \in DOMAIN comparison.cols
    THEN sort_values(comparison, XIAOLIANG_BIANHUA)
    ELSE comparison

\* the call: [ret, df (month1_df afterwards), df2 (month2_df afterwards)]
compare_months(month1_df, month2_df, group_by) ==
    LET a1 == analyze_product_performance(month1_df, group_by)
        a2 == analyze_product_performance(month2_df, group_by)
    IN  IF a1.ret[1] = "raise"
        THEN [ret |-> a1.ret, df |-> a1.df, df2 |-> month2_df]
        ELSE IF a2.ret[1] = "raise"
        THEN [ret |-> a2.ret, df |-> a1.df, df2 |-> a2.df]
        ELSE IF a1.ret[1] = "None" \/ a2.ret[1] = "None"
        THEN [ret |-> None, df |-> a1.df, df2 |-> a2.df]
        ELSE [ret |-> Returned(OrderedComparison(Merged(a1.ret[2], a2.ret[2]))),
              df |-> a1.df, df2 |-> a2.df]

\* analyzer1.compare_months(df1, df2, group_by), analyzer1.df being df1
CompareMonths(group_by) ==
    LET r == compare_months(df, df2, group_by)
    IN  /\ ret' = r.ret
        /\ df' = r.df
        /\ df2' = r.df2
        /\ last' = <<"compare_months", group_by>>
        /\ UNCHANGED webVars

(***************************************************************************)
(* Two monthly sheets                                                      *)
(***************************************************************************)
MaxMonthRows == 2

MonthAmountCells == {Num(50000), Num(100000), Num(150000)}
MonthQuantityCells == {Num(1000), Num(2000)}
\* products identified by whole-number codes 0 and 1 instead of names
ProductCodeCells == {Num(0), Num(1000)}
CodedAmountCells == {Num(0), Num(100000)}

SalesLayout == Layout(<<L_CHANPIN, L_JINE>>, <<ProductCells, MonthAmountCells>>)
QuantityLayout == Layout(<<L_CHANPIN, L_SHULIANG>>, <<ProductCells, MonthQuantityCells>>)
CodedLayout == Layout(<<L_CHANPIN, L_JINE>>, <<ProductCodeCells, CodedAmountCells>>)

\* the layouts of month 1 and month 2
MonthLayouts ==
    { <<SalesLayout, SalesLayout>>, <<QuantityLayout, QuantityLayout>>,
      <<CodedLayout, CodedLayout>>, <<SalesLayout, QuantityLayout>> }

InitCompare ==
    /\ \E pair \in MonthLayouts :
          /\ IsFrameOf(df, pair[1], MaxMonthRows)
          /\ IsFrameOf(df2, pair[2], MaxMonthRows)
    /\ ret = NoCall
    /\ last = <<"init", <<>>>>
    /\ WebIdle

NextCompare == CompareMonths(MODE_PRODUCT)

SpecCompare == InitCompare /\ [][NextCompare]_vars

LastCompare == last[1] = "compare_months"

\* the group keys of a monthly sheet
MonthKeys(frame) == Range(Column(frame, detect_columns(frame)["product"]))

\* the aggregated (rounded) amount of key k in a monthly sheet, in hundredths
MonthAmount(frame, k) ==
    LET col_map == detect_columns(frame)
    IN  Round2(RawSum(frame, col_map["product"], col_map["amount"], k))

\* C2 (as claimed): the keys in the product column of compare_months(A, B)
\* are the union of the group keys of A and of B, each exactly once.
C2_KeyUnion ==
    (LastCompare /\ IsTable(ret)) =>
        LET keys == ret[2].cols[CHANPIN]
        IN  /\ Range(keys) = MonthKeys(df) \cup MonthKeys(df2)
            /\ Cardinality(Range(keys)) = Len(keys)

\* the exact rate (b - a) / a * 100 rounded to 2 decimals, a # 0
ExpectedRate(a, b) ==
    IF a > 0 THEN RoundHalfEven((b - a) * 10000, a)
    ELSE RoundHalfEven((a - b) * 10000, -a)

\* C3 (as claimed): for every key present in both periods the row of the key
\* holds the baseline amount, the current amount, their difference and, for a
\* non-zero baseline, difference / baseline * 100, whatever the keys are.
C3_RowOfSharedKey ==
    (LastCompare /\ IsTable(ret) /\ SHANGYUE_XIAOSHOUE \in DOMAIN ret[2].cols) =>
        \A k \in MonthKeys(df) \cap MonthKeys(df2) :
            \E i \in DOMAIN ret[2].index :
                LET a == MonthAmount(df, k)
                    b == MonthAmount(df2, k)
                IN  /\ ret[2].cols[CHANPIN][i] = k
                    /\ ret[2].cols[SHANGYUE_XIAOSHOUE][i] = Num(a)
                    /\ ret[2].cols[BENYUE_XIAOSHOUE][i] = Num(b)
                    /\ ret[2].cols[XIAOSHOUE_BIANHUA][i] = Num(b - a)
                    /\ a # 0 => ret[2].cols[XIAOSHOUE_BIANHUALV][i] = Num(ExpectedRate(a, b))

(***************************************************************************)
(* ShopPerformanceAnalyzer (src/shop_analyzer_web.py)                      *)
(*                                                                         *)
(* A sheet of the web analyzer is [cols |-> set of column names,           *)
(* rows |-> sequence of rows], a row being a function from the column      *)
(* names to cells.  Further cells: <<"date", <<y, m, d>>>> a timestamp,    *)
(* <<"nat", 0>> the missing timestamp, <<"frac", <<n, d>>>> the exact      *)
(* value n / d of a float (d > 0, in lowest terms).  processed_data is     *)
(* None or <<"frame", sheet>>.                                             *)
(***************************************************************************)
Date(y, m, d) == <<"date", <<y, m, d>>>>
NaT == <<"nat", 0>>

RECURSIVE GCD(_, _)
GCD(a, b) == IF b = 0 THEN a ELSE GCD(b, a % b)

\* the float n / d, d # 0
Frac(n, d) ==
    LET g == GCD(Abs(n), Abs(d))
    IN  IF d > 0 THEN <<"frac", <<n \div g, d \div g>>>>
        ELSE <<"frac", <<(-n) \div g, (-d) \div g>>>>

IsFrac(v) == v[1] = "frac"

\* the raw column labels (pinyin) and the names preprocess_data gives them
column_mapping ==
    [dingdan_bianhao |-> "order_id",
     shangpin_zongjine |-> "product_amount",
     shangpin_xiaoshou_danjia |-> "unit_price",
     shangpin_shuliang |-> "quantity",
     yunfei_shouru |-> "shipping_fee",
     SKU |-> "sku",
     shangpin_zhongwen_mingcheng |-> "product_name",
     riqi |-> "date",
     yuefen |-> "month",
     dianpu_leimu |-> "shop_category",
     yiji_pinlei |-> "category_level1",
     erji_pinlei |-> "category_level2",
     sanji_pinlei |-> "category_level3"]

\* df.rename(columns=existing_columns)
NewName(label) ==
    IF label \in DOMAIN column_mapping THEN column_mapping[label] ELSE label

Renamed(sheet) ==
    LET old(c) == CHOOSE l \in sheet.cols : NewName(l) = c
    IN  [cols |-> {NewName(l) : l \in sheet.cols},
         rows |-> [r \in DOMAIN sheet.rows |->
                    [c \in {NewName(l) : l \in sheet.cols} |-> sheet.rows[r][old(c)]]]]

\* df[c] = values: add or overwrite a column, values[r] being the cell of row r
WithColumn(sheet, c, values) ==
    [cols |-> sheet.cols \cup {c},
     rows |-> [r \in DOMAIN sheet.rows |->
                [x \in sheet.cols \cup {c} |->
                    IF x = c THEN values[r] ELSE sheet.rows[r][x]]]]

\* pd.to_datetime(errors='coerce') of a cell
to_datetime(cell) == IF cell[1] = "date" THEN cell ELSE NaT

\* pd.to_numeric(errors='coerce').fillna(0) of a cell
to_numeric_fillna0(cell) == IF IsNum(cell) THEN cell ELSE Num(0)

numeric_columns ==
    <<"product_amount", "unit_price", "quantity", "shipping_fee",
      "order_amount", "actual_payment", "accounting_amount">>

\* the loop over numeric_columns, from position i on
RECURSIVE CoerceNumeric(_, _)
CoerceNumeric(sheet, i) ==
    IF i > Len(numeric_columns) THEN sheet
    ELSE LET c == numeric_columns[i]
         IN  IF c \in sheet.cols
             THEN CoerceNumeric(
                    WithColumn(sheet, c,
                        [r \in DOMAIN sheet.rows |-> to_numeric_fillna0(sheet.rows[r][c])]),
                    i + 1)
             ELSE CoerceNumeric(sheet, i + 1)

\* df['date'].dt.strftime('%Y-%m') of a timestamp
MonthText(date) ==
    Str(IntText(date[2][1]) \o <<"-">>
        \o (IF date[2][2] < 10 THEN <<"0">> ELSE <<>>) \o IntText(date[2][2]))

\* df['date'].dt.strftime('%Y%m').astype(int) of a timestamp
YearMonth(date) == Num(date[2][1] * 100 + date[2][2])

\* the date-derived columns of lines 139-144 ('week' and 'weekday', which no
\* analysis reads, are left out); requires every timestamp to be present
WithDateColumns(sheet) ==
    LET R == DOMAIN sheet.rows
        date == [r \in R |-> to_datetime(sheet.rows[r]["date"])]
    IN  WithColumn(
          WithColumn(
            WithColumn(
              WithColumn(sheet, "date", date),
              "month", [r \in R |-> MonthText(date[r])]),
            "year_month", [r \in R |-> YearMonth(date[r])]),
          "day", [r \in R |-> Num(date[r][2][3])])

\* a zero amount is recomputed from unit price and quantity (whole quantities)
Recomputed(sheet) ==
    LET amount(row) ==
            IF /\ row["product_amount"][2] = 0
               /\ row["unit_price"][2] > 0
               /\ row["quantity"][2] > 0
            THEN Num((row["unit_price"][2] * row["quantity"][2]) \div 1000)
            ELSE row["product_amount"]
    IN  WithColumn(sheet, "product_amount",
                   [r \in DOMAIN sheet.rows |-> amount(sheet.rows[r])])

\* shipping_ratio and net_amount
WithShippingColumns(sheet) ==
    LET ratio(row) ==
            IF row["product_amount"][2] > 0
            THEN Frac(row["shipping_fee"][2] * 100, row["product_amount"][2])
            ELSE Num(0)
        net(row) == Num(row["product_amount"][2] - row["shipping_fee"][2])
    IN  WithColumn(
          WithColumn(sheet, "shipping_ratio",
                     [r \in DOMAIN sheet.rows |-> ratio(sheet.rows[r])]),
          "net_amount", [r \in DOMAIN sheet.rows |-> net(sheet.rows[r])])

\* the year-months in increasing order
RECURSIVE SortedDescending_Ascending(_)
SortedDescending_Ascending(S) ==
    IF S = {} THEN <<>>
    ELSE LET m == CHOOSE x \in S : \A y \in S : x <= y
         IN  <<m>> \o SortedDescending_Ascending(S \ {m})

\* sorted(df['year_month'].unique(), reverse=True)
RECURSIVE SortedDescending(_)
SortedDescending(S) ==
    IF S = {} THEN <<>>
    ELSE LET m == CHOOSE x \in S : \A y \in S : y <= x
         IN  <<m>> \o SortedDescending(S \ {m})

MonthsOf(sheet) == SortedDescending({sheet.rows[r]["year_month"][2] : r \in DOMAIN sheet.rows})

(***************************************************************************)
(* ShopPerformanceAnalyzer._extract_size                                   *)
(***************************************************************************)
UpperLetters ==
    <<"A", "B", "C", "D", "E", "F", "G", "H", "I", "J", "K", "L", "M",
      "N", "O", "P", "Q", "R", "S", "T", "U", "V", "W", "X", "Y", "Z">>
LowerLetters ==
    <<"a", "b", "c", "d", "e", "f", "g", "h", "i", "j", "k", "l", "m",
      "n", "o", "p", "q", "r", "s", "t", "u", "v", "w", "x", "y", "z">>
DigitChars == {"0", "1", "2", "3", "4", "5", "6", "7", "8", "9"}

\* str.upper()
Upper(text) ==
    LET up(c) == IF \E k \in DOMAIN LowerLetters : LowerLetters[k] = c
                 THEN UpperLetters[CHOOSE k \in DOMAIN LowerLetters : LowerLetters[k] = c]
                 ELSE c
    IN  [i \in DOMAIN text |-> up(text[i])]

\* the pattern table, in the order it is searched
size_patterns ==
    << [pattern |-> <<"X", "X", "X", "L">>, size |-> <<"3", "X", "L">>],
       [pattern |-> <<"X", "X", "L">>, size |-> <<"2", "X", "L">>],
       [pattern |-> <<"X", "L">>, size |-> <<"X", "L">>],
       [pattern |-> <<"L">>, size |-> <<"L">>],
       [pattern |-> <<"M">>, size |-> <<"M">>],
       [pattern |-> <<"S">>, size |-> <<"S">>],
       [pattern |-> <<"X", "S">>, size |-> <<"X", "S">>],
       [pattern |-> <<"X", "X", "S">>, size |-> <<"2", "X", "S">>] >>

\* a character matched by \w
IsWordChar(c) ==
    c \in Range(UpperLetters) \cup Range(LowerLetters) \cup DigitChars \cup {"_"}

\* \b(2[0-9]|3[0-9]|4[0-6])\b matches at position i of the text
NumberAt(text, i) ==
    /\ i + 1 <= Len(text)
    /\ \/ text[i] \in {"2", "3"} /\ text[i + 1] \in DigitChars
       \/ text[i] = "4" /\ text[i + 1] \in {"0", "1", "2", "3", "4", "5", "6"}
    /\ i = 1 \/ ~IsWordChar(text[i - 1])
    /\ i + 1 = Len(text) \/ ~IsWordChar(text[i + 2])

size_codes ==
    << <<"1", "6", "0">>, <<"1", "6", "5">>, <<"1", "7", "0">>, <<"1", "7", "5">>,
       <<"1", "8", "0">>, <<"1", "8", "5">>, <<"1", "9", "0">> >>

\* the least position of a sequence that satisfies a test given as flags
FirstTrue(flags) == CHOOSE i \in DOMAIN flags : flags[i] /\ \A j \in 1..(i - 1) : ~flags[j]

\* the call; the results 'unknown', 'size NN', 'height NNN' and 'standard'
\* in pinyin
extract_size(sku) ==
    IF IsNaN(sku) THEN Str(<<"wei4", "zhi1">>)
    ELSE LET sku_str == Upper(astype_str(sku))
             english == [k \in DOMAIN size_patterns |->
                            Contains(size_patterns[k].pattern, sku_str)]
             numbers == [i \in DOMAIN sku_str |-> NumberAt(sku_str, i)]
             codes == [k \in DOMAIN size_codes |-> Contains(size_codes[k], sku_str)]
         IN  IF \E k \in DOMAIN english : english[k]
             THEN Str(size_patterns[FirstTrue(english)].size)
             ELSE IF \E i \in DOMAIN numbers : numbers[i]
             THEN Str(<<"ma3">> \o SubSeq(sku_str, FirstTrue(numbers), FirstTrue(numbers) + 1))
             ELSE IF \E k \in DOMAIN codes : codes[k]
             THEN Str(<<"shen1", "gao1">> \o size_codes[FirstTrue(codes)])
             ELSE Str(<<"biao1", "zhun3">>)

\* df['extracted_size'] = df['sku'].apply(self._extract_size)
WithExtractedSize(sheet) ==
    WithColumn(sheet, "extracted_size",
               [r \in DOMAIN sheet.rows |-> extract_size(sheet.rows[r]["sku"])])

\* the call: [raised, processed_data, current_month, previous_month]; an
\* exception leaves the three attributes as they were
preprocess_data(sheet, old_processed, old_current, old_previous) ==
    LET failed(e) == [raised |-> e, processed_data |-> old_processed,
                      current_month |-> old_current, previous_month |-> old_previous]
        s0 == Renamed(sheet)
        hasDate == "date" \in s0.cols
        s1 == IF hasDate THEN WithDateColumns(s0) ELSE s0
        s2 == CoerceNumeric(s1, 1)
        derive == "product_amount" \in s2.cols /\ "quantity" \in s2.cols
        s3 == IF derive THEN Recomputed(s2) ELSE s2
        ship == "product_amount" \in s3.cols /\ "shipping_fee" \in s3.cols
        s4 == IF ship THEN WithShippingColumns(s3) ELSE s3
        s5 == IF "sku" \in s4.cols THEN WithExtractedSize(s4) ELSE s4
        months == MonthsOf(s5)
    IN  IF hasDate /\ \E r \in DOMAIN s0.rows : to_datetime(s0.rows[r]["date"]) = NaT
        THEN failed("ValueError")       \* astype(int) of a missing month
        ELSE IF derive /\ "unit_price" \notin s2.cols
        THEN failed("KeyError")         \* df['unit_price']
        ELSE [raised |-> "",
              processed_data |-> <<"frame", s5>>,
              current_month |->
                 IF hasDate /\ Len(months) >= 2 THEN Num(months[1]) ELSE old_current,
              previous_month |->
                 IF hasDate /\ Len(months) >= 2 THEN Num(months[2]) ELSE old_previous]

(***************************************************************************)
(* ShopPerformanceAnalyzer.analyze_monthly_comparison                      *)
(***************************************************************************)
\* column names of the product comparison: product name, this month's sales
\* and quantity, last month's sales and quantity, sales growth, growth rate
CHANPIN_MINGCHENG == "chanpin_mingcheng"
XIAOSHOUE_ZENGZHANG == "xiaoshoue_zengzhang"
XIAOSHOUE_ZENGZHANGLV == "xiaoshoue_zengzhanglv"
\* column names of the monthly statistics: metric, this month, last month, growth rate
ZHIBIAO == "zhibiao"
BENYUE == "benyue"
SHANGYUE == "shangyue"
ZENGZHANGLV == "zengzhanglv"

\* df[df['year_month'] == month]
MonthRows(sheet, month) ==
    SelectSeq(sheet.rows, LAMBDA row : row["year_month"] = month)

\* column c of a sequence of rows
Values(rows, c) == [r \in DOMAIN rows |-> rows[r][c]]

\* rows.groupby('product_name') keys: sorted distinct names, missing dropped
NameKeys(rows) ==
    SortedLabels({c \in Range(Values(rows, "product_name")) : c[1] = "str"})

\* the sum of column c over the rows of one product
NameSum(rows, c, name) ==
    SumRows(Values(rows, "product_name"), Values(rows, c), name, Len(rows))

\* groupby('product_name').agg(sum).reset_index() as a Series per column
Grouped(rows, c) ==
    LET keys == NameKeys(rows)
    IN  Series(keys, [i \in DOMAIN keys |-> Num(NameSum(rows, c, keys[i]))])

\* the key column of a left join: the keys of the left table only
MergeLeftKeys(left, right) == SortedLabels(Range(left))

\* the key column of pd.merge(current, previous, on=name, how='outer'): the
\* union of both key columns, sorted
MergeOuterKeys(left, right) == SortedLabels(Range(left) \cup Range(right))

\* a growth rate that defaults to 0 when there is no positive baseline
GrowthRate_ZeroDefault(growth, prev) ==
    IF prev[2] > 0 THEN Frac(growth[2] * 100, prev[2]) ELSE Num(0)

\* np.where(prev > 0, growth / prev * 100, inf)
GrowthRate(growth, prev) ==
    IF prev[2] > 0 THEN Frac(growth[2] * 100, prev[2]) ELSE PosInf

\* product_comparison
ProductComparison(current_rows, previous_rows) ==
    LET keys == MergeOuterKeys(NameKeys(current_rows), NameKeys(previous_rows))
        \* the merged columns, missing entries filled by fillna(0)
        col(rows, c) == Reindex(Grouped(rows, c), keys, Num(0))
        cur == col(current_rows, "product_amount")
        prev == col(previous_rows, "product_amount")
        growth == [i \in DOMAIN keys |-> Num(cur[i][2] - prev[i][2])]
    IN  [index |-> RangeIndex(Len(keys)),
         cols |-> (CHANPIN_MINGCHENG :> keys)
                  @@ (BENYUE_XIAOSHOUE :> cur)
                  @@ (BENYUE_XIAOLIANG :> col(current_rows, "quantity"))
                  @@ (SHANGYUE_XIAOSHOUE :> prev)
                  @@ (SHANGYUE_XIAOLIANG :> col(previous_rows, "quantity"))
                  @@ (XIAOSHOUE_ZENGZHANG :> growth)
                  @@ (XIAOSHOUE_ZENGZHANGLV :>
                        [i \in DOMAIN keys |-> GrowthRate(growth[i], prev[i])])]

\* Series.sum() of a numeric column of rows, as the float it is
TotalOf(rows, c) == Frac(SumSeq([r \in DOMAIN rows |-> rows[r][c][2]]), 1000)

\* Series.nunique(): the number of distinct non-missing values
NUnique(rows, c) == Cardinality({v \in Range(Values(rows, c)) : ~IsNaN(v)})

\* total sales / number of orders if there is an order, else 0
AverageOrderValue(rows) ==
    IF NUnique(rows, "order_id") > 0
    THEN Frac(TotalOf(rows, "product_amount")[2][1],
              TotalOf(rows, "product_amount")[2][2] * NUnique(rows, "order_id"))
    ELSE Frac(0, 1)

\* ((cur - prev) / prev * 100).round(2) of two floats, in hundredths of a
\* percent; float division by zero gives nan or +-inf
StatGrowth(cur, prev) ==
    LET n == cur[2][1] * prev[2][2] - prev[2][1] * cur[2][2]    \* sign of cur - prev
    IN  IF prev[2][1] = 0
        THEN IF n = 0 THEN NaN ELSE IF n > 0 THEN PosInf ELSE NegInf
        ELSE LET num == n * 10000
                 den == prev[2][1] * cur[2][2]
             IN  IF den > 0 THEN Num(RoundHalfEven(num, den))
                 ELSE Num(RoundHalfEven(-num, -den))

\* monthly_stats
MonthlyStats(current_rows, previous_rows) ==
    LET stats(rows) ==
            << TotalOf(rows, "product_amount"), TotalOf(rows, "quantity"),
               Frac(NUnique(rows, "order_id"), 1), AverageOrderValue(rows) >>
        this == stats(current_rows)
        prev == stats(previous_rows)
    IN  [index |-> RangeIndex(4),
         cols |-> (ZHIBIAO :> <<"zong_xiaoshoue", "zong_xiaoliang", "dingdanshu",
                                 "pingjun_kedanjia">>)
                  @@ (BENYUE :> this)
                  @@ (SHANGYUE :> prev)
                  @@ (ZENGZHANGLV :> [i \in 1..4 |-> StatGrowth(this[i], prev[i])])]

\* the three values returned when there is nothing to compare
NoneTriple == <<"None", <<None, None, None>>>>

\* the call; the columns it reads must exist, else pandas raises KeyError
analyze_monthly_comparison(processed, current, previous) ==
    IF processed[1] = "None" \/ previous[1] = "None" THEN NoneTriple
    ELSE IF {"product_name", "product_amount", "quantity"} \subseteq processed[2].cols
    THEN IF "order_id" \in processed[2].cols
         THEN LET current_rows == MonthRows(processed[2], current)
                  previous_rows == MonthRows(processed[2], previous)
              IN  <<"tuple", [product_comparison |->
                                  ProductComparison(current_rows, previous_rows),
                              monthly_stats |-> MonthlyStats(current_rows, previous_rows),
                              current_data |-> current_rows]>>
         ELSE Raised("KeyError")
    ELSE Raised("KeyError")

(***************************************************************************)
(* ShopPerformanceAnalyzer as a state machine                              *)
(***************************************************************************)
MaxSheetRows == 2

DateCells == {Date(2024, 1, 15), Date(2024, 2, 10), Date(2024, 3, 5)}
SheetAmountCells == {Num(-100000), Num(0), Num(150000)}
UnitPriceCells == {Num(0), Num(50000)}

\* the rows of an order sheet with all columns the monthly comparison reads
OrderRows ==
    [riqi : DateCells,
     shangpin_zhongwen_mingcheng : ProductCells,
     shangpin_zongjine : SheetAmountCells,
     shangpin_xiaoshou_danjia : UnitPriceCells,
     shangpin_shuliang : {Num(2000)},
     dingdan_bianhao : {Num(1000)}]

\* rows of a sheet without a date column
UndatedRows ==
    [shangpin_zhongwen_mingcheng : ProductCells,
     shangpin_zongjine : SheetAmountCells]

\* rows of a sheet with amount and quantity but no unit price or order id
BareRows ==
    [riqi : {Date(2024, 1, 15), Date(2024, 2, 10)},
     shangpin_zhongwen_mingcheng : ProductCells,
     shangpin_zongjine : {Num(0), Num(150000)},
     shangpin_shuliang : {Num(2000)}]

SheetKinds == {OrderRows, UndatedRows, BareRows}

\* sheet is a sheet of at most n rows, at least one, drawn from rowset
IsSheetOf(sheet, rowset, n) ==
    \E k \in 1..n : \E rows \in [1..k -> rowset] :
        sheet = [cols |-> DOMAIN rows[1], rows |-> rows]

ShopIdle ==
    /\ df = EmptyFrame
    /\ df2 = EmptyFrame
    /\ ret = NoCall

InitWeb ==
    /\ \E rowset \in SheetKinds : IsSheetOf(data, rowset, MaxSheetRows)
    /\ processed_data = None
    /\ current_month = None
    /\ previous_month = None
    /\ wret = NoCall
    /\ last = <<"init", <<>>>>
    /\ ShopIdle

\* analyzer.preprocess_data()
PreprocessData ==
    LET r == preprocess_data(data, processed_data, current_month, previous_month)
    IN  /\ processed_data' = r.processed_data
        /\ current_month' = r.current_month
        /\ previous_month' = r.previous_month
        /\ wret' = IF r.raised = "" THEN r.processed_data ELSE Raised(r.raised)
        /\ last' = <<"preprocess_data", <<>>>>
        /\ UNCHANGED <<data, df, df2, ret>>

\* analyzer.analyze_monthly_comparison()
AnalyzeMonthlyComparison ==
    /\ wret' = analyze_monthly_comparison(processed_data, current_month, previous_month)
    /\ last' = <<"analyze_monthly_comparison", <<>>>>
    /\ UNCHANGED <<data, processed_data, current_month, previous_month, df, df2, ret>>

NextWeb == PreprocessData \/ AnalyzeMonthlyComparison

SpecWeb == InitWeb /\ [][NextWeb]_vars

(***************************************************************************)
(* Properties of analyze_monthly_comparison                                *)
(***************************************************************************)
\* the last call was analyze_monthly_comparison and returned its three tables
LastMonthly == last[1] = "analyze_monthly_comparison" /\ wret[1] = "tuple"

\* the product names with a record in a month of the processed data
NamesIn(month) ==
    {processed_data[2].rows[r]["product_name"] :
        r \in {q \in DOMAIN processed_data[2].rows :
                    processed_data[2].rows[q]["year_month"] = month}}

\* C4: the product comparison has exactly one row per product name occurring
\* in the current or in the previous month, and a product absent from one of
\* the two months has sales 0 and quantity 0 for that month.
C4_OneRowPerProduct ==
    LastMonthly =>
        LET pc == wret[2].product_comparison
            names == pc.cols[CHANPIN_MINGCHENG]
        IN  /\ Range(names) = NamesIn(current_month) \cup NamesIn(previous_month)
            /\ Cardinality(Range(names)) = Len(names)
            /\ \A i \in DOMAIN names :
                 /\ names[i] \notin NamesIn(previous_month) =>
                        /\ pc.cols[SHANGYUE_XIAOSHOUE][i] = Num(0)
                        /\ pc.cols[SHANGYUE_XIAOLIANG][i] = Num(0)
                 /\ names[i] \notin NamesIn(current_month) =>
                        /\ pc.cols[BENYUE_XIAOSHOUE][i] = Num(0)
                        /\ pc.cols[BENYUE_XIAOLIANG][i] = Num(0)

\* C4 witness: one product sold only this month, another only last month
C4_Witness ==
    /\ LastMonthly
    /\ NamesIn(current_month) \ NamesIn(previous_month) # {}
    /\ NamesIn(previous_month) \ NamesIn(current_month) # {}
    /\ Len(wret[2].product_comparison.index) = 2

\* C5: a product present in the current month and absent from the previous
\* month has last month's sales 0 and the growth rate +inf.
C5_NewProductInfinite ==
    LastMonthly =>
        LET pc == wret[2].product_comparison
        IN  \A i \in DOMAIN pc.index :
               pc.cols[CHANPIN_MINGCHENG][i] \in NamesIn(current_month) \ NamesIn(previous_month)
               => /\ pc.cols[SHANGYUE_XIAOSHOUE][i] = Num(0)
                  /\ pc.cols[XIAOSHOUE_ZENGZHANGLV][i] = PosInf

\* C5 witness: a new product with non-zero sales next to a product also sold
\* last month
C5_Witness ==
    /\ LastMonthly
    /\ \E i, j \in DOMAIN wret[2].product_comparison.index :
          LET pc == wret[2].product_comparison
          IN  /\ pc.cols[CHANPIN_MINGCHENG][i] \in NamesIn(current_month) \ NamesIn(previous_month)
              /\ pc.cols[BENYUE_XIAOSHOUE][i][2] > 0
              /\ pc.cols[CHANPIN_MINGCHENG][j] \in NamesIn(previous_month)

\* C6 (as claimed): for a non-zero previous-month amount, positive or
\* negative, the growth rate is the finite (current - previous) / previous
\* * 100, and it is infinite only when the previous-month amount is exactly 0.
C6_FiniteUnlessZeroBaseline ==
    LastMonthly =>
        LET pc == wret[2].product_comparison
        IN  \A i \in DOMAIN pc.index :
               LET cur == pc.cols[BENYUE_XIAOSHOUE][i][2]
                   prev == pc.cols[SHANGYUE_XIAOSHOUE][i][2]
                   rate == pc.cols[XIAOSHOUE_ZENGZHANGLV][i]
               IN  /\ prev # 0 => rate = Frac((cur - prev) * 100, prev)
                   /\ IsInf(rate) => prev = 0

(***************************************************************************)
(* Properties of the grouping modes                                        *)
(***************************************************************************)
\* text(product) + '_' + text(size) of row r
CompositeText(frame, col_map, r) ==
    Str(astype_str(Column(frame, col_map["product"])[r]) \o <<"_">>
        \o astype_str(Column(frame, col_map["size"])[r]))

\* C11: in mode 'product_size' the call returns None when the product role
\* is unresolved; with product and size resolved it stores the composite key
\* text(product) + '_' + text(size) of every row and its groups are the
\* distinct composite keys, each sales entry summing the rows of that key;
\* with product but not size resolved its groups are the distinct values of
\* the product column.
C11_CompositeGrouping ==
    (LastAnalyze /\ last[2] = MODE_PRODUCT_SIZE) =>
        LET col_map == LastColMap
            resolved(role) == role \in DOMAIN col_map
        IN  /\ ~resolved("product") => ret = None
            /\ (resolved("product") /\ DOMAIN col_map \cap DOMAIN MetricOfRole # {})
                  => IsTable(ret)
            /\ (resolved("product") /\ resolved("size")) =>
                  /\ HasColumn(df, COMPOSITE)
                  /\ \A r \in DOMAIN df.rows :
                        Column(df, COMPOSITE)[r] = CompositeText(df, col_map, r)
                  /\ IsTable(ret) =>
                        /\ Range(ret[2].index) =
                              {CompositeText(df, col_map, r) : r \in DOMAIN df.rows}
                        /\ Cardinality(Range(ret[2].index)) = Len(ret[2].index)
                        /\ resolved("amount") =>
                              \A i \in DOMAIN ret[2].index :
                                 IsRounded2(ret[2].cols[XIAOSHOUE][i][2],
                                            RawSum(df, COMPOSITE, col_map["amount"],
                                                   ret[2].index[i]))
            /\ (resolved("product") /\ ~resolved("size") /\ IsTable(ret)) =>
                  /\ Range(ret[2].index) = Range(Column(df, col_map["product"]))
                  /\ Cardinality(Range(ret[2].index)) = Len(ret[2].index)

\* C11 witness: one product sold in two sizes gives two composite groups
C11_Witness ==
    /\ LastAnalyze /\ last[2] = MODE_PRODUCT_SIZE /\ IsTable(ret)
    /\ {Str(<<"A", "_", "M">>), Str(<<"A", "_", "S">>)} \subseteq Range(ret[2].index)
    /\ Len(df.rows) = 3

(***************************************************************************)
(* Sheets with one size per product, both modes called                     *)
(***************************************************************************)
MaxModeRows == 3

\* product names (one of them missing, one containing the separator) and sizes
ModeProductCells == {Str(<<"A">>), Str(<<"A", "_", "B">>), NaN}
ModeSizeCells == {Str(<<"C">>), Str(<<"B", "_", "C">>)}
ModeAmountCells == {Num(1000), Num(2000)}

ModeLayout ==
    Layout(<<L_CHANPIN, L_CHICUN, L_JINE>>,
           <<ModeProductCells, ModeSizeCells, ModeAmountCells>>)

\* rows with the same product carry the same size
OneSizePerProduct(frame) ==
    \A r1, r2 \in DOMAIN frame.rows :
        Column(frame, L_CHANPIN)[r1] = Column(frame, L_CHANPIN)[r2]
            => Column(frame, L_CHICUN)[r1] = Column(frame, L_CHICUN)[r2]

InitModes ==
    /\ IsFrameOf(df, ModeLayout, MaxModeRows)
    /\ OneSizePerProduct(df)
    /\ df2 = EmptyFrame
    /\ ret = NoCall
    /\ last = <<"init", <<>>>>
    /\ WebIdle

NextModes ==
    \/ AnalyzeProductPerformance(MODE_PRODUCT)
    \/ AnalyzeProductPerformance(MODE_PRODUCT_SIZE)

SpecModes == InitModes /\ [][NextModes]_vars

\* the composite key that corresponds to product key p: p + '_' + its size
CompositeOf(frame, p) ==
    LET r == CHOOSE x \in DOMAIN frame.rows : Column(frame, L_CHANPIN)[x] = p
    IN  Str(astype_str(p) \o <<"_">> \o astype_str(Column(frame, L_CHICUN)[r]))

\* the sales entry of the row of table t with key k
EntryOf(t, name, k) ==
    t.cols[name][CHOOSE i \in DOMAIN t.index : t.index[i] = k]

\* C12 (as claimed): on a sheet with one size per product, the table of mode
\* 'product_size' has as many groups as the table of mode 'product', and the
\* group p_size holds the same sums as the group p.
C12_SameTotals ==
    (LastAnalyze /\ last[2] = MODE_PRODUCT_SIZE /\ IsTable(ret)) =>
        LET byProduct == analyze_product_performance(df, MODE_PRODUCT).ret
        IN  /\ IsTable(byProduct)
            /\ Len(byProduct[2].index) = Len(ret[2].index)
            /\ \A i \in DOMAIN byProduct[2].index :
                  LET k == CompositeOf(df, byProduct[2].index[i])
                  IN  /\ k \in Range(ret[2].index)
                      /\ EntryOf(ret[2], XIAOSHOUE, k) = byProduct[2].cols[XIAOSHOUE][i]

(***************************************************************************)
(* Column Resolver as a state machine                                      *)
(***************************************************************************)
MaxCols == 3

L_CHANPIN_CHICUN == <<"chan3", "pin3", "chi3", "cun4">>   \* product size
L_PRODUCT_LOW == <<"p", "r", "o", "d", "u", "c", "t">>
L_AMOUNT_UP == <<"A", "M", "O", "U", "N", "T">>
L_SIZE_CAP == <<"S", "i", "z", "e">>
L_SHANGPIN_MINGCHENG == <<"shang1", "pin3", "ming2", "cheng1">>   \* goods name
L_SHANGPIN_SHULIANG == <<"shang1", "pin3", "shu4", "liang4">>     \* goods quantity

ResolverLabels ==
    {L_CHANPIN, L_PINMING, L_CHICUN, L_JINE, L_CHANPIN_CHICUN,
     L_PRODUCT_CAP, L_PRODUCT_LOW, L_AMOUNT_UP, L_SIZE_CAP, L_BEIZHU,
     L_SHANGPIN_MINGCHENG, L_SHANGPIN_SHULIANG}

\* a returned role mapping
Mapping(m) == <<"map", m>>

InitResolver ==
    /\ \E k \in 0..MaxCols : \E labels \in [1..k -> ResolverLabels] :
          /\ \A i, j \in 1..k : i # j => labels[i] # labels[j]
          /\ df = [columns |-> labels, rows |-> <<>>]
    /\ df2 = EmptyFrame
    /\ ret = NoCall
    /\ last = <<"init", <<>>>>
    /\ WebIdle

\* analyzer.detect_columns()
DetectColumns ==
    /\ ret' = Mapping(detect_columns(df))
    /\ last' = <<"detect_columns", <<>>>>
    /\ UNCHANGED <<df, df2, webVars>>

NextResolver == DetectColumns

SpecResolver == InitResolver /\ [][NextResolver]_vars

LastDetect == last[1] = "detect_columns"

\* the positions of the columns claimed for a role
ClaimedFor(role, columns) ==
    {i \in DOMAIN columns :
        ClaimingRole(columns[i]) # 0 /\ Roles[ClaimingRole(columns[i])] = role}

\* C13: the mapping returned by detect_columns maps a role exactly when some
\* column was claimed for it, maps it to the earliest such column, and maps
\* no column to two roles.
C13_FirstClaimWins ==
    LastDetect =>
        LET m == ret[2]
        IN  /\ DOMAIN m \subseteq Range(Roles)
            /\ \A role \in Range(Roles) :
                  LET claimed == ClaimedFor(role, df.columns)
                  IN  /\ role \in DOMAIN m <=> claimed # {}
                      /\ role \in DOMAIN m =>
                            \E i \in claimed :
                               /\ m[role] = df.columns[i]
                               /\ \A j \in claimed : i <= j
            /\ \A r1, r2 \in DOMAIN m : r1 # r2 => m[r1] # m[r2]

\* C13 witness: two columns claimed for product; the earlier one is mapped
\* and the later one is mapped to no role
C13_Witness ==
    /\ LastDetect
    /\ Len(df.columns) = 3
    /\ df.columns[1] = L_PINMING /\ df.columns[3] = L_CHANPIN_CHICUN
    /\ ret[2]["product"] = L_PINMING
    /\ \A role \in DOMAIN ret[2] : ret[2][role] # L_CHANPIN_CHICUN

\* C14: detect_columns matches keywords against the label as written: every
\* mapped label contains a keyword of its role character for character, and
\* the labels 'Product', 'AMOUNT' and 'Size', which contain a keyword only
\* after lowercasing, are mapped to no role.
C14_CaseSensitive ==
    LastDetect =>
        LET m == ret[2]
        IN  \A role \in DOMAIN m :
               /\ \E w \in Range(keywords[role]) : Contains(w, m[role])
               /\ m[role] \notin {L_PRODUCT_CAP, L_AMOUNT_UP, L_SIZE_CAP}

\* C14 witness: 'Product' and 'AMOUNT' stand before 'product'; only the
\* lowercase label is mapped
C14_Witness ==
    /\ LastDetect
    /\ df.columns = <<L_PRODUCT_CAP, L_AMOUNT_UP, L_PRODUCT_LOW>>
    /\ DOMAIN ret[2] = {"product"}
    /\ ret[2]["product"] = L_PRODUCT_LOW

\* the roles one of whose keywords occurs in a label, as positions in Roles
RolesIn(col) == {k \in DOMAIN Roles : AnyWordIn(Roles[k], col)}

\* the least of a non-empty set of positions
Earliest(S) == CHOOSE k \in S : \A j \in S : k <= j

\* the roles a label is mapped to by the returned mapping
MappedTo(col) == {role \in DOMAIN ret[2] : ret[2][role] = col}

\* C26: a column whose label contains keywords of several roles is
\* considered only for the earliest of them in the order product, size,
\* quantity, amount, shipping, date: it is mapped to no other role, and to no
\* role at all when an earlier column has the same earliest role.
C26_EarliestRoleOnly ==
    LastDetect =>
        \A i \in DOMAIN df.columns :
            LET col == df.columns[i]
            IN  RolesIn(col) # {} =>
                  LET first == Roles[Earliest(RolesIn(col))]
                      taken == \E j \in 1..(i - 1) :
                                  /\ RolesIn(df.columns[j]) # {}
                                  /\ Roles[Earliest(RolesIn(df.columns[j]))] = first
                  IN  /\ MappedTo(col) \subseteq {first}
                      /\ taken => MappedTo(col) = {}
                      /\ ~taken => MappedTo(col) = {first}

\* C26 witness: with the columns 'goods name', 'goods quantity' the second
\* label contains a quantity keyword, yet the quantity role is unresolved
C26_Witness ==
    /\ LastDetect
    /\ df.columns = <<L_SHANGPIN_MINGCHENG, L_SHANGPIN_SHULIANG>>
    /\ AnyWordIn("quantity", L_SHANGPIN_SHULIANG)
    /\ "quantity" \notin DOMAIN ret[2]
    /\ ret[2]["product"] = L_SHANGPIN_MINGCHENG

(***************************************************************************)
(* ShopPerformanceAnalyzer.analyze_shipping                                *)
(*                                                                         *)
(* Counts are plain naturals; sums of fees are cells in thousandths; the   *)
(* mean fee is a float in thousandths, the fee ratio a float in percent.   *)
(***************************************************************************)
\* names of the shipping statistics: total shipping income, mean fee per
\* order, fee ratio, orders with a fee, total orders
ZONG_YUNFEI_SHOURU == "zong_yunfei_shouru"
PINGJUN_MEIDAN_YUNFEI == "pingjun_meidan_yunfei"
YUNFEI_ZHANBI == "yunfei_zhanbi"
YOU_YUNFEI_DINGDANSHU == "you_yunfei_dingdanshu"
ZONG_DINGDANSHU == "zong_dingdanshu"

\* the bin edges of pd.cut in thousandths, -0.01, 0.01, 10, 20, 50, 100; the
\* seventh edge is +inf
shipping_bin_edges == <<-10, 10, 10000, 20000, 50000, 100000>>

\* the bin labels: free shipping, 0-10, 10-20, 20-50, 50-100 yuan, above 100 yuan
shipping_bin_labels ==
    <<"mian_yunfei", "0-10yuan", "10-20yuan", "20-50yuan", "50-100yuan",
      "100yuan_yishang">>

\* pd.cut(value, bins) with right-closed intervals (edge[i], edge[i+1]]: the
\* number of the bin of a fee, 0 (missing) for a fee at or below the first edge
cut(fee) ==
    IF fee <= shipping_bin_edges[1] THEN 0
    ELSE IF fee > shipping_bin_edges[Len(shipping_bin_edges)]
    THEN Len(shipping_bin_edges)
    ELSE (CHOOSE i \in 2..Len(shipping_bin_edges) :
            /\ fee <= shipping_bin_edges[i]
            /\ fee > shipping_bin_edges[i - 1]) - 1

\* the number of TRUE entries of a sequence of booleans: (condition).sum()
CountTrue(flags) == Cardinality({i \in DOMAIN flags : flags[i]})

\* a distribution that lists only the bins some record falls into
ShippingDist_ObservedOnly(fees) ==
    LET count(b) == CountTrue([i \in DOMAIN fees |-> cut(fees[i][2]) = b])
        seen == SelectSeq([b \in 1..Len(shipping_bin_labels) |-> b],
                          LAMBDA b : count(b) > 0)
    IN  [index |-> [i \in DOMAIN seen |-> shipping_bin_labels[seen[i]]],
         values |-> [i \in DOMAIN seen |-> count(seen[i])]]

\* shipping_bins.value_counts().sort_index(): every category, in category
\* order, with the number of records cut into it
ShippingDist(fees) ==
    [index |-> shipping_bin_labels,
     values |-> [b \in 1..Len(shipping_bin_labels) |->
                    CountTrue([i \in DOMAIN fees |-> cut(fees[i][2]) = b])]]

\* shipping_stats
ShippingStats(rows) ==
    LET fees == Values(rows, "shipping_fee")
        total == SumSeq([r \in DOMAIN rows |-> fees[r][2]])
        amount == SumSeq([r \in DOMAIN rows |-> rows[r]["product_amount"][2]])
    IN  (ZONG_YUNFEI_SHOURU :> Num(total))
        @@ (PINGJUN_MEIDAN_YUNFEI :>
                IF Len(rows) = 0 THEN NaN ELSE Frac(total, Len(rows)))
        @@ (YUNFEI_ZHANBI :> IF amount > 0 THEN Frac(total * 100, amount) ELSE Num(0))
        @@ (YOU_YUNFEI_DINGDANSHU :> CountTrue([i \in DOMAIN fees |-> fees[i][2] > 0]))
        @@ (ZONG_DINGDANSHU :> Len(rows))

\* the empty DataFrame returned when there is nothing to analyze
EmptyDataFrame == <<"empty", 0>>

\* the call; the columns it reads must exist, else pandas raises KeyError
analyze_shipping(processed) ==
    IF processed[1] = "None" THEN EmptyDataFrame
    ELSE IF {"shipping_fee", "product_amount"} \subseteq processed[2].cols
    THEN <<"tuple", [shipping_stats |-> ShippingStats(processed[2].rows),
                     shipping_dist |->
                        ShippingDist(Values(processed[2].rows, "shipping_fee"))]>>
    ELSE Raised("KeyError")

(***************************************************************************)
(* Sheets of shipping fees                                                 *)
(***************************************************************************)
MaxFeeRows == 2

\* fees in thousandths: -5, 0, 0.01, 0.02, 10, 15, 50, 60, 100, 150
FeeCells ==
    {Num(-5000), Num(0), Num(10), Num(20), Num(10000), Num(15000),
     Num(50000), Num(60000), Num(100000), Num(150000)}

FeeRows ==
    [shangpin_zongjine : {Num(0), Num(100000)},
     yunfei_shouru : FeeCells]

\* rows of a sheet without a shipping-fee column
NoFeeRows == [shangpin_zongjine : {Num(0), Num(100000)}]

InitShipping ==
    /\ \/ \E k \in 0..MaxFeeRows : \E rows \in [1..k -> FeeRows] :
             data = [cols |-> {"shangpin_zongjine", "yunfei_shouru"}, rows |-> rows]
       \/ IsSheetOf(data, NoFeeRows, 1)
    /\ processed_data = None
    /\ current_month = None
    /\ previous_month = None
    /\ wret = NoCall
    /\ last = <<"init", <<>>>>
    /\ ShopIdle

\* analyzer.analyze_shipping()
AnalyzeShipping ==
    /\ wret' = analyze_shipping(processed_data)
    /\ last' = <<"analyze_shipping", <<>>>>
    /\ UNCHANGED <<data, processed_data, current_month, previous_month, df, df2, ret>>

NextShipping == PreprocessData \/ AnalyzeShipping

SpecShipping == InitShipping /\ [][NextShipping]_vars

(***************************************************************************)
(* Properties of analyze_shipping                                          *)
(***************************************************************************)
\* the last call was analyze_shipping and it returned statistics and distribution
LastShipping == last[1] = "analyze_shipping" /\ wret[1] = "tuple"

\* the fees of the processed records, in thousandths
ProcessedFees ==
    [r \in DOMAIN processed_data[2].rows |-> processed_data[2].rows[r]["shipping_fee"][2]]

\* C15: the distribution returned by analyze_shipping lists the six bins
\* free, 0-10, 10-20, 20-50, 50-100, above 100 in this order whatever the
\* data, with a count for each, and all six counts are 0 when the processed
\* data has no record; the call returns the distribution whenever the
\* processed data has the fee and amount columns.
C15_AllBins ==
    /\ (last[1] = "analyze_shipping" /\ processed_data[1] = "frame"
        /\ {"shipping_fee", "product_amount"} \subseteq processed_data[2].cols)
          => wret[1] = "tuple"
    /\ LastShipping =>
          LET dist == wret[2].shipping_dist
          IN  /\ dist.index = <<"mian_yunfei", "0-10yuan", "10-20yuan", "20-50yuan",
                                "50-100yuan", "100yuan_yishang">>
              /\ DOMAIN dist.values = 1..6
              /\ \A b \in 1..6 : dist.values[b] \in Nat
              /\ \A b \in 1..6 :
                    (\A r \in DOMAIN ProcessedFees : cut(ProcessedFees[r]) # b)
                        => dist.values[b] = 0
              /\ Len(processed_data[2].rows) = 0 => \A b \in 1..6 : dist.values[b] = 0

\* C15 witness: the distribution of a processed sheet without records
C15_Witness ==
    /\ LastShipping
    /\ Len(processed_data[2].rows) = 0
    /\ wret[2].shipping_dist.values = <<0, 0, 0, 0, 0, 0>>

\* the lower (exclusive) and upper (inclusive) bounds claimed for bins 2..6,
\* in thousandths; bin 1 is the single value 0 and bin 6 has no upper bound
ClaimedLower == <<0, 0, 10000, 20000, 50000, 100000>>
ClaimedUpper == <<0, 10000, 20000, 50000, 100000, 0>>

InClaimedBin(fee, b) ==
    IF b = 1 THEN fee = 0
    ELSE IF b = 6 THEN fee > ClaimedLower[6]
    ELSE fee > ClaimedLower[b] /\ fee <= ClaimedUpper[b]

\* C16 (as claimed): the count of each bin is the number of records whose
\* fee lies in [0,0], (0,10], (10,20], (20,50], (50,100], (100,inf): the free
\* bin counts exactly the fees equal to 0, and a fee of 0.01 is counted in 0-10.
C16_ClaimedIntervals ==
    LastShipping =>
        \A b \in 1..6 :
            wret[2].shipping_dist.values[b] =
                Cardinality({r \in DOMAIN ProcessedFees : InClaimedBin(ProcessedFees[r], b)})

\* C17 (as claimed): the six counts sum to the number of records, 'total
\* orders' of the statistics, whatever the fees (negative fees included).
C17_CountsSumToRecords ==
    LastShipping =>
        /\ wret[2].shipping_stats[ZONG_DINGDANSHU] = Len(processed_data[2].rows)
        /\ SumSeq(wret[2].shipping_dist.values) = Len(processed_data[2].rows)

(***************************************************************************)
(* ShopPerformanceAnalyzer.get_summary_metrics and analyze_daily_trends    *)
(***************************************************************************)
\* further names of the summary metrics: total sales, total quantity, average
\* order value, total shipping, number of products, number of SKUs, average
\* unit price, net income ('total orders' and 'fee ratio' are named above)
ZONG_XIAOSHOUE == "zong_xiaoshoue"
ZONG_XIAOLIANG == "zong_xiaoliang"
PINGJUN_KEDANJIA == "pingjun_kedanjia"
ZONG_YUNFEI == "zong_yunfei"
CHANPIN_SHULIANG == "chanpin_shuliang"
SKU_SHULIANG == "sku_shuliang"
PINGJUN_DANJIA == "pingjun_danjia"
JING_SHOURU == "jing_shouru"

\* a / b of two floats, b # 0
FracDiv(a, b) == Frac(a[2][1] * b[2][2], a[2][2] * b[2][1])

\* a # 0 for a float
FracPositive_Nonzero(a) == a[2][1] # 0

\* a > 0 for a float
FracPositive(a) == a[2][1] > 0

\* metrics
SummaryMetrics(sheet) ==
    LET rows == sheet.rows
        amount == TotalOf(rows, "product_amount")
        quantity == TotalOf(rows, "quantity")
        shipping == TotalOf(rows, "shipping_fee")
        hundred == Frac(100, 1)
    IN  (ZONG_XIAOSHOUE :> amount)
        @@ (ZONG_XIAOLIANG :> quantity)
        @@ (ZONG_DINGDANSHU :> NUnique(rows, "order_id"))
        @@ (PINGJUN_KEDANJIA :> AverageOrderValue(rows))
        @@ (ZONG_YUNFEI :> shipping)
        @@ (YUNFEI_ZHANBI :>
                IF FracPositive(amount)
                THEN FracDiv(Frac(shipping[2][1] * 100, shipping[2][2]), amount)
                ELSE Frac(0, 1))
        @@ (CHANPIN_SHULIANG :> NUnique(rows, "product_name"))
        @@ (SKU_SHULIANG :> IF "sku" \in sheet.cols THEN NUnique(rows, "sku") ELSE 0)
        @@ (PINGJUN_DANJIA :>
                IF FracPositive(quantity) THEN FracDiv(amount, quantity) ELSE Frac(0, 1))
        @@ (JING_SHOURU :>
                IF "net_amount" \in sheet.cols THEN TotalOf(rows, "net_amount") ELSE amount)

\* a returned dictionary
Dict(d) == <<"dict", d>>

\* the call; the columns it reads must exist, else pandas raises KeyError
get_summary_metrics(processed) ==
    IF processed[1] = "None" THEN Dict(EmptyMap)
    ELSE IF {"product_amount", "quantity", "order_id", "shipping_fee", "product_name"}
                \subseteq processed[2].cols
    THEN Dict(SummaryMetrics(processed[2]))
    ELSE Raised("KeyError")

\* column names of the daily trends: date, number of orders (sales, quantity,
\* shipping and average order value are named above)
RIQI == "riqi"
DINGDANSHU == "dingdanshu"

\* the order of calendar dates
DateLess(a, b) ==
    \/ a[2][1] < b[2][1]
    \/ a[2][1] = b[2][1] /\ a[2][2] < b[2][2]
    \/ a[2][1] = b[2][1] /\ a[2][2] = b[2][2] /\ a[2][3] < b[2][3]

RECURSIVE SortedDates(_)
SortedDates(S) ==
    IF S = {} THEN <<>>
    ELSE LET m == CHOOSE x \in S : \A y \in S \ {x} : DateLess(x, y)
         IN  <<m>> \o SortedDates(S \ {m})

\* the keys of df.groupby(df['date'].dt.date): the distinct calendar dates,
\* sorted, missing timestamps dropped
DayKeys(rows) == SortedDates({d \in Range(Values(rows, "date")) : d[1] = "date"})

DayRows(rows, day) == SelectSeq(rows, LAMBDA row : row["date"] = day)

\* an average order value that is 0 on a day without orders
DailyAverage_ZeroGuard(amount, orders) ==
    IF orders = 0 THEN Frac(0, 1)
    ELSE Frac(amount[2][1], amount[2][2] * orders)

\* daily_trends[sales] / daily_trends[orders]: float division, a zero count
\* of orders giving nan or +-inf
DailyAverage(amount, orders) ==
    IF orders = 0
    THEN IF amount[2][1] = 0 THEN NaN ELSE IF amount[2][1] > 0 THEN PosInf ELSE NegInf
    ELSE Frac(amount[2][1], amount[2][2] * orders)

\* daily_trends
DailyTrends(rows) ==
    LET days == DayKeys(rows)
        total(i, c) == TotalOf(DayRows(rows, days[i]), c)
        orders(i) == NUnique(DayRows(rows, days[i]), "order_id")
    IN  [index |-> RangeIndex(Len(days)),
         cols |-> (RIQI :> days)
                  @@ (XIAOSHOUE :> [i \in DOMAIN days |-> total(i, "product_amount")])
                  @@ (XIAOLIANG :> [i \in DOMAIN days |-> total(i, "quantity")])
                  @@ (DINGDANSHU :> [i \in DOMAIN days |-> orders(i)])
                  @@ (YUNFEI :> [i \in DOMAIN days |-> total(i, "shipping_fee")])
                  @@ (PINGJUN_KEDANJIA :>
                        [i \in DOMAIN days |->
                            DailyAverage(total(i, "product_amount"), orders(i))])]

\* the call; the columns it reads must exist, else pandas raises KeyError
analyze_daily_trends(processed) ==
    IF processed[1] = "None" THEN EmptyDataFrame
    ELSE IF "date" \notin processed[2].cols THEN EmptyDataFrame
    ELSE IF {"product_amount", "quantity", "order_id", "shipping_fee"}
                \subseteq processed[2].cols
    THEN Returned(DailyTrends(processed[2].rows))
    ELSE Raised("KeyError")

(***************************************************************************)
(* Dated order sheets                                                      *)
(***************************************************************************)
MaxTrendRows == 2

\* two days and a text that is no date
TrendDateCells == {Date(2024, 1, 15), Date(2024, 1, 16), Str(<<"X">>)}
\* two order ids and a missing one
TrendOrderCells == {Num(1000), Num(2000), NaN}

TrendRows ==
    [riqi : TrendDateCells,
     dingdan_bianhao : TrendOrderCells,
     shangpin_zhongwen_mingcheng : {Str(<<"A">>)},
     shangpin_zongjine : {Num(0), Num(150000)},
     shangpin_xiaoshou_danjia : {Num(0)},
     shangpin_shuliang : {Num(1000)},
     yunfei_shouru : {Num(5000)}]

InitTrend ==
    /\ IsSheetOf(data, TrendRows, MaxTrendRows)
    /\ processed_data = None
    /\ current_month = None
    /\ previous_month = None
    /\ wret = NoCall
    /\ last = <<"init", <<>>>>
    /\ ShopIdle

\* analyzer.get_summary_metrics()
GetSummaryMetrics ==
    /\ wret' = get_summary_metrics(processed_data)
    /\ last' = <<"get_summary_metrics", <<>>>>
    /\ UNCHANGED <<data, processed_data, current_month, previous_month, df, df2, ret>>

\* analyzer.analyze_daily_trends()
AnalyzeDailyTrends ==
    /\ wret' = analyze_daily_trends(processed_data)
    /\ last' = <<"analyze_daily_trends", <<>>>>
    /\ UNCHANGED <<data, processed_data, current_month, previous_month, df, df2, ret>>

NextTrend == PreprocessData \/ GetSummaryMetrics \/ AnalyzeDailyTrends

SpecTrend == InitTrend /\ [][NextTrend]_vars

(***************************************************************************)
(* Properties of preprocess_data, get_summary_metrics, analyze_daily_trends *)
(***************************************************************************)
\* some row of the raw sheet carries a date that cannot be parsed
HasUnparsableDate ==
    \E r \in DOMAIN data.rows : data.rows[r]["riqi"][1] # "date"

\* the exact total of a raw column over all rows of the sheet, as a float
RawTotal(label) ==
    Frac(SetSum([r \in DOMAIN data.rows |-> data.rows[r][label][2]], DOMAIN data.rows),
         1000)

\* C18 (as claimed): on a sheet with an unparsable date preprocess_data does
\* not raise and keeps every row; afterwards the daily trends hold dated days
\* only, and the totals of the summary metrics include the amount, quantity
\* and shipping fee of every row.
C18_UnparsableDateRetained ==
    HasUnparsableDate =>
        /\ last[1] = "preprocess_data" =>
              /\ wret[1] # "raise"
              /\ processed_data[1] = "frame"
              /\ Len(processed_data[2].rows) = Len(data.rows)
        /\ (last[1] = "analyze_daily_trends" /\ processed_data[1] = "frame") =>
              /\ IsTable(wret)
              /\ \A i \in DOMAIN wret[2].index : wret[2].cols[RIQI][i][1] = "date"
        /\ (last[1] = "get_summary_metrics" /\ processed_data[1] = "frame") =>
              /\ wret[1] = "dict"
              /\ wret[2][ZONG_XIAOSHOUE] = RawTotal("shangpin_zongjine")
              /\ wret[2][ZONG_XIAOLIANG] = RawTotal("shangpin_shuliang")
              /\ wret[2][ZONG_YUNFEI] = RawTotal("yunfei_shouru")

LastDaily == last[1] = "analyze_daily_trends" /\ IsTable(wret)

\* the processed records of a day, their exact total of a column, their
\* distinct order ids
RecordsOf(day) ==
    {r \in DOMAIN processed_data[2].rows : processed_data[2].rows[r]["date"] = day}

DayTotal(day, c) ==
    Frac(SetSum([r \in DOMAIN processed_data[2].rows |->
                    processed_data[2].rows[r][c][2]], RecordsOf(day)), 1000)

OrdersOf(day) ==
    {processed_data[2].rows[r]["order_id"] : r \in RecordsOf(day)} \ {NaN}

\* C19: analyze_daily_trends returns, without raising, one row per calendar
\* date that has a record; the row holds the day's sums of amount, quantity
\* and shipping fee and its number of distinct order ids, and its average
\* order value is amount sum / order count, which is nan or +-inf on a day
\* whose order ids are all missing.
C19_DailyRows ==
    /\ (last[1] = "analyze_daily_trends" /\ processed_data[1] = "frame") => IsTable(wret)
    /\ LastDaily =>
          LET t == wret[2]
              days == t.cols[RIQI]
          IN  /\ Range(days) =
                    {processed_data[2].rows[r]["date"] : r \in DOMAIN processed_data[2].rows}
              /\ Cardinality(Range(days)) = Len(days)
              /\ \A i \in DOMAIN days :
                    LET n == Cardinality(OrdersOf(days[i]))
                        amount == DayTotal(days[i], "product_amount")
                        average == t.cols[PINGJUN_KEDANJIA][i]
                    IN  /\ t.cols[XIAOSHOUE][i] = amount
                        /\ t.cols[XIAOLIANG][i] = DayTotal(days[i], "quantity")
                        /\ t.cols[YUNFEI][i] = DayTotal(days[i], "shipping_fee")
                        /\ t.cols[DINGDANSHU][i] = n
                        /\ n > 0 => average = Frac(amount[2][1], amount[2][2] * n)
                        /\ n = 0 => IsNaN(average) \/ IsInf(average)

\* C19 witness: two days, one with an order and one whose only record has no
\* order id and a positive amount (average +inf)
C19_Witness ==
    /\ LastDaily
    /\ Len(wret[2].cols[RIQI]) = 2
    /\ \E i, j \in 1..2 :
          /\ wret[2].cols[DINGDANSHU][i] = 0
          /\ wret[2].cols[PINGJUN_KEDANJIA][i] = PosInf
          /\ wret[2].cols[DINGDANSHU][j] = 1
          /\ IsFrac(wret[2].cols[PINGJUN_KEDANJIA][j])

(***************************************************************************)
(* Two monthly sheets of coded products, one row per product               *)
(***************************************************************************)
MaxCodes == 2

DeltaAmounts == {0, 50000, 100000, 150000}

\* the sheet listing the products 0, 1, ... with the given amounts
CodedFrame(amount) ==
    [columns |-> <<L_CHANPIN, L_JINE>>,
     rows |-> [i \in DOMAIN amount |-> <<Num(1000 * (i - 1)), Num(amount[i])>>]]

InitDelta ==
    /\ \E k1, k2 \in 1..MaxCodes :
          \E a1 \in [1..k1 -> DeltaAmounts], a2 \in [1..k2 -> DeltaAmounts] :
             /\ df = CodedFrame(a1)
             /\ df2 = CodedFrame(a2)
    /\ ret = NoCall
    /\ last = <<"init", <<>>>>
    /\ WebIdle

NextDelta == CompareMonths(MODE_PRODUCT)

SpecDelta == InitDelta /\ [][NextDelta]_vars

\* the numeric entries of a column are in non-increasing order of absolute value
NonIncreasingAbs(col) ==
    \A i, j \in DOMAIN col :
        (i < j /\ IsNum(col[i]) /\ IsNum(col[j])) => Abs(col[i][2]) >= Abs(col[j][2])

\* C20 (as claimed): the rows returned by compare_months are ordered by
\* non-increasing absolute value of the sales change, or of the quantity
\* change when sales are not compared, a large decline standing before a
\* small growth.
C20_AbsoluteDeltaOrder ==
    (LastCompare /\ IsTable(ret)) =>
        IF XIAOSHOUE_BIANHUA \in DOMAIN ret[2].cols
        THEN NonIncreasingAbs(ret[2].cols[XIAOSHOUE_BIANHUA])
        ELSE XIAOLIANG_BIANHUA \in DOMAIN ret[2].cols
                => NonIncreasingAbs(ret[2].cols[XIAOLIANG_BIANHUA])

(***************************************************************************)
(* The monthly comparison section of main: new and discontinued products   *)
(***************************************************************************)
\* product_comparison[product_comparison[column] == 0]: the product names of
\* the rows whose entry of the column is 0, in row order
ZeroRows(comparison, column) ==
    LET rows == SelectSeq([i \in DOMAIN comparison.index |-> i],
                          LAMBDA i : comparison.cols[column][i] = Num(0))
    IN  [i \in DOMAIN rows |-> comparison.cols[CHANPIN_MINGCHENG][rows[i]]]

\* new_products: the rows with last month's sales == 0
new_products(comparison) == ZeroRows(comparison, SHANGYUE_XIAOSHOUE)

\* discontinued: the rows with this month's sales == 0
discontinued(comparison) == ZeroRows(comparison, BENYUE_XIAOSHOUE)

\* the section: the comparison is computed and, unless it is None, filtered
show_monthly_comparison(processed, current, previous) ==
    LET r == analyze_monthly_comparison(processed, current, previous)
    IN  IF r[1] = "tuple"
        THEN <<"shown", [product_comparison |-> r[2].product_comparison,
                         new_products |-> new_products(r[2].product_comparison),
                         discontinued |-> discontinued(r[2].product_comparison)]>>
        ELSE r

MaxFilterRows == 2

\* order rows of January and February with positive, zero and refunded amounts
FilterRows ==
    [riqi : {Date(2024, 1, 15), Date(2024, 2, 10)},
     shangpin_zhongwen_mingcheng : ProductCells,
     shangpin_zongjine : {Num(-150000), Num(0), Num(150000)},
     shangpin_xiaoshou_danjia : {Num(0)},
     shangpin_shuliang : {Num(2000)},
     dingdan_bianhao : {Num(1000)}]

InitFilters ==
    /\ IsSheetOf(data, FilterRows, MaxFilterRows)
    /\ processed_data = None
    /\ current_month = None
    /\ previous_month = None
    /\ wret = NoCall
    /\ last = <<"init", <<>>>>
    /\ ShopIdle

\* the monthly comparison section of main
ShowMonthlyComparison ==
    /\ wret' = show_monthly_comparison(processed_data, current_month, previous_month)
    /\ last' = <<"show_monthly_comparison", <<>>>>
    /\ UNCHANGED <<data, processed_data, current_month, previous_month, df, df2, ret>>

NextFilters == PreprocessData \/ ShowMonthlyComparison

SpecFilters == InitFilters /\ [][NextFilters]_vars

\* the names of the products with a record in a month
ProductsOf(month) ==
    {processed_data[2].rows[r]["product_name"] :
        r \in {x \in DOMAIN processed_data[2].rows :
                    processed_data[2].rows[x]["year_month"] = month}}

\* C21 (as claimed): the 'new product' filter selects exactly the compared
\* products without a record in the previous month, the 'discontinued'
\* filter exactly those without a record in the current month, and no
\* product is selected by both.
C21_FiltersByPresence ==
    (last[1] = "show_monthly_comparison" /\ wret[1] = "shown") =>
        LET compared == ProductsOf(current_month) \cup ProductsOf(previous_month)
        IN  /\ Range(wret[2].new_products) = compared \ ProductsOf(previous_month)
            /\ Range(wret[2].discontinued) = compared \ ProductsOf(current_month)
            /\ Range(wret[2].new_products) \cap Range(wret[2].discontinued) = {}

(***************************************************************************)
(* Frame effects of ShopAnalyzer                                           *)
(***************************************************************************)
\* C22 (as claimed): no call of analyze_product_performance or
\* compare_months, in any grouping mode, changes the columns or rows of the
\* analyzer's data frame or of the frames passed to compare_months.
C22_InputsUnchanged == [][df' = df /\ df2' = df2]_vars

(***************************************************************************)
(* ShopPerformanceAnalyzer.analyze_products                                *)
(***************************************************************************)
\* further column names of the product summary: actual average unit price,
\* average order amount (the other seven are named above)
SHIJI_PINGJUN_DANJIA == "shiji_pingjun_danjia"
PINGJUN_DINGDAN_JINE == "pingjun_dingdan_jine"

\* the float n / d of a Series division: a zero divisor gives nan or +-inf
Quotient(n, d) ==
    IF d = 0 THEN IF n = 0 THEN NaN ELSE IF n > 0 THEN PosInf ELSE NegInf
    ELSE Frac(n, d)

\* the rows of one product
NameRows(rows, name) == SelectSeq(rows, LAMBDA row : row["product_name"] = name)

\* product_summary, sorted by total sales; sums are cells in thousandths
ProductSummary(rows) ==
    LET keys == NameKeys(rows)
        K == DOMAIN keys
        sum(i, c) == NameSum(rows, c, keys[i])
        orders(i) == NUnique(NameRows(rows, keys[i]), "order_id")
    IN  sort_values(
          [index |-> RangeIndex(Len(keys)),
           cols |-> (CHANPIN_MINGCHENG :> keys)
                    @@ (ZONG_XIAOLIANG :> [i \in K |-> Num(sum(i, "quantity"))])
                    @@ (ZONG_XIAOSHOUE :> [i \in K |-> Num(sum(i, "product_amount"))])
                    @@ (ZONG_YUNFEI :> [i \in K |-> Num(sum(i, "shipping_fee"))])
                    @@ (DINGDANSHU :> [i \in K |-> orders(i)])
                    @@ (PINGJUN_DANJIA :>
                          [i \in K |-> Frac(sum(i, "unit_price"),
                                            1000 * Len(NameRows(rows, keys[i])))])
                    @@ (SHIJI_PINGJUN_DANJIA :>
                          [i \in K |-> Quotient(sum(i, "product_amount"), sum(i, "quantity"))])
                    @@ (PINGJUN_DINGDAN_JINE :>
                          [i \in K |-> Quotient(sum(i, "product_amount"), 1000 * orders(i))])
                    @@ (YUNFEI_ZHANBI :>
                          [i \in K |-> Quotient(sum(i, "shipping_fee") * 100,
                                                sum(i, "product_amount"))])],
          ZONG_XIAOSHOUE)

\* the call (top_n is not used by the code); the columns it reads must
\* exist, else pandas raises KeyError
analyze_products(processed) ==
    IF processed[1] = "None" THEN EmptyDataFrame
    ELSE IF {"product_name", "quantity", "product_amount", "shipping_fee", "order_id",
             "unit_price"} \subseteq processed[2].cols
    THEN Returned(ProductSummary(processed[2].rows))
    ELSE Raised("KeyError")

\* analyzer.analyze_products()
AnalyzeProducts ==
    /\ wret' = analyze_products(processed_data)
    /\ last' = <<"analyze_products", <<>>>>
    /\ UNCHANGED <<data, processed_data, current_month, previous_month, df, df2, ret>>

(***************************************************************************)
(* Sheets that lack a column                                               *)
(***************************************************************************)
MaxMissingRows == 2

\* the rows of a complete order sheet
CompleteRows ==
    [riqi : {Date(2024, 1, 15)},
     dingdan_bianhao : {Num(1000)},
     shangpin_zhongwen_mingcheng : ProductCells,
     shangpin_zongjine : {Num(0), Num(150000)},
     shangpin_xiaoshou_danjia : {Num(50000)},
     shangpin_shuliang : {Num(2000)},
     yunfei_shouru : {Num(5000)}]

\* the columns one of which a sheet may lack: order id, product name, unit
\* price, shipping fee
Droppable ==
    {"dingdan_bianhao", "shangpin_zhongwen_mingcheng", "shangpin_xiaoshou_danjia",
     "yunfei_shouru"}

Without(row, label) == [c \in DOMAIN row \ {label} |-> row[c]]

InitMissing ==
    /\ \E k \in 1..MaxMissingRows : \E rows \in [1..k -> CompleteRows] :
          \/ data = [cols |-> DOMAIN rows[1], rows |-> rows]
          \/ \E label \in Droppable :
                data = [cols |-> DOMAIN rows[1] \ {label},
                        rows |-> [r \in 1..k |-> Without(rows[r], label)]]
    /\ processed_data = None
    /\ current_month = None
    /\ previous_month = None
    /\ wret = NoCall
    /\ last = <<"init", <<>>>>
    /\ ShopIdle

NextMissing ==
    \/ PreprocessData
    \/ GetSummaryMetrics
    \/ AnalyzeProducts
    \/ AnalyzeShipping
    \/ AnalyzeDailyTrends

SpecMissing == InitMissing /\ [][NextMissing]_vars

\* C23 (as claimed): preprocess_data, get_summary_metrics, analyze_products,
\* analyze_shipping and analyze_daily_trends never raise on a sheet that
\* lacks the order id, product name, unit price or shipping fee column: the
\* analyses return an empty or absent result.
C23_MissingColumnNeverRaises ==
    /\ wret[1] # "raise"
    /\ (last[1] \in {"get_summary_metrics", "analyze_products", "analyze_shipping",
                     "analyze_daily_trends"}
        /\ processed_data[1] = "frame"
        /\ \E label \in Droppable : label \notin data.cols)
          => wret \in {EmptyDataFrame, Dict(EmptyMap)}

(***************************************************************************)
(* Sheets that span up to three months                                     *)
(***************************************************************************)
MaxSpanRows == 3

\* rows of a dated order sheet of one product; the unit price 0 leaves the
\* amounts as they are
SpanRows ==
    [riqi : DateCells,
     shangpin_zhongwen_mingcheng : {Str(<<"A">>)},
     shangpin_zongjine : {Num(100000), Num(150000)},
     shangpin_xiaoshou_danjia : {Num(0)},
     shangpin_shuliang : {Num(2000)},
     dingdan_bianhao : {Num(1000)}]

InitSpan ==
    /\ IsSheetOf(data, SpanRows, MaxSpanRows)
    /\ processed_data = None
    /\ current_month = None
    /\ previous_month = None
    /\ wret = NoCall
    /\ last = <<"init", <<>>>>
    /\ ShopIdle

NextSpan == PreprocessData \/ AnalyzeMonthlyComparison

SpecSpan == InitSpan /\ [][NextSpan]_vars

\* the year-months of the raw sheet, as numbers
RawMonths == {YearMonth(data.rows[r]["riqi"])[2] : r \in DOMAIN data.rows}

Largest(S) == CHOOSE x \in S : \A y \in S : y <= x

\* the sum of the raw amounts of one year-month, in thousandths
RawMonthTotal(month) ==
    SetSum([r \in DOMAIN data.rows |-> data.rows[r]["shangpin_zongjine"][2]],
           {r \in DOMAIN data.rows : YearMonth(data.rows[r]["riqi"])[2] = month})

\* C24: after preprocess_data on dated data, with at least two distinct
\* year-months current_month is the largest and previous_month the second
\* largest, and analyze_monthly_comparison returns the records and totals of
\* exactly these two months; with fewer than two both stay None and the
\* comparison returns (None, None, None).
C24_TwoLatestMonths ==
    (processed_data[1] = "frame"
     /\ last[1] \in {"preprocess_data", "analyze_monthly_comparison"})
      => IF Cardinality(RawMonths) >= 2
         THEN LET cur == Largest(RawMonths)
                  prev == Largest(RawMonths \ {cur})
              IN  /\ current_month = Num(cur)
                  /\ previous_month = Num(prev)
                  /\ previous_month[2] < current_month[2]
                  /\ last[1] = "analyze_monthly_comparison" =>
                       /\ wret[1] = "tuple"
                       /\ \A r \in DOMAIN wret[2].current_data :
                              wret[2].current_data[r]["year_month"] = Num(cur)
                       /\ Len(wret[2].current_data)
                            = Cardinality({r \in DOMAIN data.rows :
                                  YearMonth(data.rows[r]["riqi"])[2] = cur})
                       /\ wret[2].monthly_stats.cols[BENYUE][1]
                            = Frac(RawMonthTotal(cur), 1000)
                       /\ wret[2].monthly_stats.cols[SHANGYUE][1]
                            = Frac(RawMonthTotal(prev), 1000)
         ELSE /\ current_month = None
              /\ previous_month = None
              /\ last[1] = "analyze_monthly_comparison" => wret = NoneTriple

\* a comparison was computed on a sheet that spans three months
C24_Witness ==
    /\ Cardinality(RawMonths) = 3
    /\ last[1] = "analyze_monthly_comparison"
    /\ wret[1] = "tuple"

(***************************************************************************)
(* Sheets with zero and negative totals                                    *)
(***************************************************************************)
MaxSummaryRows == 2

\* rows of an undated order sheet: the order id may be missing, the amount
\* negative or zero, the quantity zero
SummaryRows ==
    [dingdan_bianhao : {Num(1000), NaN},
     shangpin_zhongwen_mingcheng : {Str(<<"A">>)},
     shangpin_zongjine : {Num(-100000), Num(0), Num(150000)},
     shangpin_xiaoshou_danjia : {Num(0)},
     shangpin_shuliang : {Num(0), Num(2000)},
     yunfei_shouru : {Num(5000)}]

InitSummary ==
    /\ IsSheetOf(data, SummaryRows, MaxSummaryRows)
    /\ processed_data = None
    /\ current_month = None
    /\ previous_month = None
    /\ wret = NoCall
    /\ last = <<"init", <<>>>>
    /\ ShopIdle

NextSummary == PreprocessData \/ GetSummaryMetrics

SpecSummary == InitSummary /\ [][NextSummary]_vars

\* the sum of a processed column, in thousandths
ProcessedSum(c) ==
    SetSum([r \in DOMAIN processed_data[2].rows |-> processed_data[2].rows[r][c][2]],
           DOMAIN processed_data[2].rows)

\* the number of distinct order ids of the processed data
DistinctOrders ==
    Cardinality({processed_data[2].rows[r]["order_id"] :
                    r \in DOMAIN processed_data[2].rows} \ {NaN})

LastSummary ==
    /\ last[1] = "get_summary_metrics"
    /\ processed_data[1] = "frame"
    /\ wret[1] = "dict"

\* C25: get_summary_metrics never divides by zero: the average order value
\* is 0 without distinct order ids, the shipping share is 0 when the total
\* amount is not positive, the average unit price is 0 when the total
\* quantity is not positive; otherwise each is the plain ratio.
C25_GuardedRatios ==
    (last[1] = "get_summary_metrics" /\ processed_data[1] = "frame") =>
        /\ wret[1] = "dict"
        /\ LET A == ProcessedSum("product_amount")
               Q == ProcessedSum("quantity")
               S == ProcessedSum("shipping_fee")
               N == DistinctOrders
           IN  /\ wret[2][PINGJUN_KEDANJIA]
                    = IF N = 0 THEN Frac(0, 1) ELSE Frac(A, 1000 * N)
               /\ wret[2][YUNFEI_ZHANBI]
                    = IF A <= 0 THEN Frac(0, 1) ELSE Frac(S * 100, A)
               /\ wret[2][PINGJUN_DANJIA]
                    = IF Q <= 0 THEN Frac(0, 1) ELSE Frac(A, Q)

\* metrics of a sheet with no order id, a negative total amount and a zero
\* total quantity
C25_Witness ==
    /\ LastSummary
    /\ DistinctOrders = 0
    /\ ProcessedSum("product_amount") < 0
    /\ ProcessedSum("quantity") = 0

(***************************************************************************)
(* Repeated calls with both modes                                          *)
(***************************************************************************)
MaxRepeatRows == 2
\* the longest key text a further call is made on
MaxKeyLen == 5

RepeatAmountCells == {Num(1000), Num(2000)}

\* sheets with a product, a size and an amount column; in the second the
\* product column carries the label of the composite column
RepeatLayouts ==
    { Layout(<<L_CHANPIN, L_CHICUN, L_JINE>>, <<ProductCells, SizeCells, RepeatAmountCells>>),
      Layout(<<COMPOSITE, L_CHICUN, L_JINE>>, <<ProductCells, SizeCells, RepeatAmountCells>>) }

InitRepeat ==
    /\ \E layout \in RepeatLayouts : IsFrameOf(df, layout, MaxRepeatRows)
    /\ df2 = EmptyFrame
    /\ ret = NoCall
    /\ last = <<"init", <<>>>>
    /\ WebIdle

\* every text of the sheet is shorter than MaxKeyLen
ShortKeys ==
    \A r \in DOMAIN df.rows : \A c \in DOMAIN df.rows[r] :
        df.rows[r][c][1] = "str" => Len(df.rows[r][c][2]) < MaxKeyLen

NextRepeat ==
    \/ ShortKeys /\ AnalyzeProductPerformance(MODE_PRODUCT)
    \/ ShortKeys /\ AnalyzeProductPerformance(MODE_PRODUCT_SIZE)

SpecRepeat == InitRepeat /\ [][NextRepeat]_vars

\* C27 (as claimed): repeated calls are idempotent across modes: no call
\* changes the table that a call with mode 'product' or 'product_size'
\* returns, so each call returns the same table as the first call with its
\* mode.
C27_RepeatableAcrossModes ==
    [][\A g \in Modes :
          analyze_product_performance(df', g).ret = analyze_product_performance(df, g).ret]_vars

(***************************************************************************)
(* ShopPerformanceAnalyzer.analyze_size_performance                        *)
(***************************************************************************)
\* column names of the size summary: size (total sales, total quantity and
\* number of products are named above)
CHICUN == "chicun"

\* the rows of one group of groupby(c)
KeyRows(rows, c, key) == SelectSeq(rows, LAMBDA row : row[c] = key)

\* Series.sum() of a numeric column of rows, in thousandths
ColumnSum(rows, c) == SumSeq([r \in DOMAIN rows |-> rows[r][c][2]])

\* size_summary, sorted by total sales
SizeSummary(rows) ==
    LET keys == SortedLabels({c \in Range(Values(rows, "extracted_size")) : c[1] = "str"})
        K == DOMAIN keys
        group(i) == KeyRows(rows, "extracted_size", keys[i])
    IN  sort_values(
          [index |-> RangeIndex(Len(keys)),
           cols |-> (CHICUN :> keys)
                    @@ (ZONG_XIAOSHOUE :> [i \in K |-> Num(ColumnSum(group(i), "product_amount"))])
                    @@ (ZONG_XIAOLIANG :> [i \in K |-> Num(ColumnSum(group(i), "quantity"))])
                    @@ (CHANPIN_SHULIANG :> [i \in K |-> NUnique(group(i), "product_name")])],
          ZONG_XIAOSHOUE)

\* a call that inspects the columns before it tests for None
analyze_size_performance_ColumnsFirst(processed) ==
    IF processed[1] = "None" THEN Raised("AttributeError")
    ELSE IF "extracted_size" \notin processed[2].cols THEN EmptyDataFrame
    ELSE IF {"product_amount", "quantity", "product_name"} \subseteq processed[2].cols
    THEN Returned(SizeSummary(processed[2].rows))
    ELSE Raised("KeyError")

\* the call; the columns it reads must exist, else pandas raises KeyError
analyze_size_performance(processed) ==
    IF processed[1] = "None" THEN EmptyDataFrame
    ELSE IF "extracted_size" \notin processed[2].cols THEN EmptyDataFrame
    ELSE IF {"product_amount", "quantity", "product_name"} \subseteq processed[2].cols
    THEN Returned(SizeSummary(processed[2].rows))
    ELSE Raised("KeyError")

\* analyzer.analyze_size_performance()
AnalyzeSizePerformance ==
    /\ wret' = analyze_size_performance(processed_data)
    /\ last' = <<"analyze_size_performance", <<>>>>
    /\ UNCHANGED <<data, processed_data, current_month, previous_month, df, df2, ret>>

(***************************************************************************)
(* Sheets with an SKU column                                               *)
(***************************************************************************)
MaxSkuRows == 2

\* SKU texts: size tokens in either case, digits with and without a word
\* boundary, a height code, none of these, and a missing SKU
SkuCells ==
    {Str(<<"X", "S">>), Str(<<"X", "X", "S">>), Str(<<"x", "l">>),
     Str(<<"T", "-", "3", "8">>), Str(<<"T", "3", "8">>), Str(<<"1", "7", "0">>),
     Str(<<"0", "1">>), NaN}

SkuRows ==
    [SKU : SkuCells,
     shangpin_zhongwen_mingcheng : {Str(<<"A">>)},
     shangpin_zongjine : {Num(150000)},
     shangpin_xiaoshou_danjia : {Num(0)},
     shangpin_shuliang : {Num(2000)}]

\* rows of a sheet without an SKU column
NoSkuRows ==
    [shangpin_zhongwen_mingcheng : {Str(<<"A">>)},
     shangpin_zongjine : {Num(150000)},
     shangpin_xiaoshou_danjia : {Num(0)},
     shangpin_shuliang : {Num(2000)}]

InitSizes ==
    /\ \E rowset \in {SkuRows, NoSkuRows} : IsSheetOf(data, rowset, MaxSkuRows)
    /\ processed_data = None
    /\ current_month = None
    /\ previous_month = None
    /\ wret = NoCall
    /\ last = <<"init", <<>>>>
    /\ ShopIdle

NextSizes == PreprocessData \/ AnalyzeSizePerformance

SpecSizes == InitSizes /\ [][NextSizes]_vars

\* the size tokens of an SKU text: the patterns of the table it contains
TokensIn(text) ==
    {k \in DOMAIN size_patterns : Contains(size_patterns[k].pattern, Upper(text))}

\* the most specific of them: those contained in no other token of the text
MostSpecific(text) ==
    {k \in TokensIn(text) :
        \A j \in TokensIn(text) \ {k} :
            ~Contains(size_patterns[k].pattern, size_patterns[j].pattern)}

\* C30 (as claimed): _extract_size gives the size of the most specific size
\* token of the SKU (XS yields 'XS', XXS yields '2XS') and 'unknown' for a
\* missing SKU; analyze_size_performance has one row per size so extracted.
C30_MostSpecificToken ==
    (processed_data[1] = "frame" /\ "extracted_size" \in processed_data[2].cols) =>
        /\ \A r \in DOMAIN processed_data[2].rows :
              LET row == processed_data[2].rows[r]
              IN  /\ IsNaN(row["sku"]) => row["extracted_size"] = Str(<<"wei4", "zhi1">>)
                  /\ (row["sku"][1] = "str" /\ TokensIn(row["sku"][2]) # {}) =>
                        \E k \in MostSpecific(row["sku"][2]) :
                            row["extracted_size"] = Str(size_patterns[k].size)
        /\ (last[1] = "analyze_size_performance" /\ IsTable(wret)) =>
              Range(wret[2].cols[CHICUN])
                = {processed_data[2].rows[r]["extracted_size"] :
                      r \in DOMAIN processed_data[2].rows}

(***************************************************************************)
(* ShopPerformanceAnalyzer.analyze_categories                              *)
(***************************************************************************)
\* column name added to the category summary: sales share, written without
\* a unit (average unit price and average order amount are named above)
XIAOSHOUE_ZHANBI_PINLEI == "xiaoshoue_zhanbi_pinlei"

\* the candidate category columns, in the order they are tried
category_columns == <<"category_level1", "category_level2", "category_level3", "shop_category">>

\* col in df.columns and df[col].notna().sum() > 0
Usable(sheet, col) ==
    /\ col \in sheet.cols
    /\ \E r \in DOMAIN sheet.rows : ~IsNaN(sheet.rows[r][col])

\* (n / d).round(2) of two Series entries, as a cell holding hundredths;
\* float division by zero gives nan or +-inf
RoundedRatio(n, d) ==
    IF d = 0
    THEN IF n = 0 THEN NaN ELSE IF n > 0 THEN PosInf ELSE NegInf
    ELSE IF d > 0 THEN Num(RoundHalfEven(n * 100, d))
    ELSE Num(RoundHalfEven((-n) * 100, -d))

\* category_summary, sorted by sales
CategorySummary(rows, category_col) ==
    LET keys == SortedLabels({c \in Range(Values(rows, category_col)) : c[1] = "str"})
        K == DOMAIN keys
        group(i) == KeyRows(rows, category_col, keys[i])
        amount(i) == ColumnSum(group(i), "product_amount")
        total_sales == SumSeq([i \in K |-> amount(i)])
    IN  sort_values(
          [index |-> RangeIndex(Len(keys)),
           cols |-> (category_col :> keys)
                    @@ ("product_amount" :> [i \in K |-> Num(amount(i))])
                    @@ ("quantity" :> [i \in K |-> Num(ColumnSum(group(i), "quantity"))])
                    @@ ("order_id" :> [i \in K |-> NUnique(group(i), "order_id")])
                    @@ ("product_name" :> [i \in K |-> NUnique(group(i), "product_name")])
                    @@ (XIAOSHOUE_ZHANBI_PINLEI :>
                          [i \in K |-> PctOfTotal(amount(i), total_sales)])
                    @@ (PINGJUN_DANJIA :>
                          [i \in K |->
                              RoundedRatio(amount(i), ColumnSum(group(i), "quantity"))])
                    @@ (PINGJUN_DINGDAN_JINE :>
                          [i \in K |->
                              RoundedRatio(amount(i), 1000 * NUnique(group(i), "order_id"))])],
          "product_amount")

\* the two values returned by `return category_summary, category_col`
Pair(a, b) == <<"pair", <<a, b>>>>

\* the call: a single empty DataFrame when there is nothing to summarise,
\* else the pair; the columns it aggregates must exist, else KeyError
analyze_categories(processed) ==
    IF processed[1] = "None" THEN EmptyDataFrame
    ELSE IF \A k \in DOMAIN category_columns : ~Usable(processed[2], category_columns[k])
    THEN EmptyDataFrame
    ELSE LET category_col ==
                 category_columns[CHOOSE k \in DOMAIN category_columns :
                     /\ Usable(processed[2], category_columns[k])
                     /\ \A j \in 1..(k - 1) : ~Usable(processed[2], category_columns[j])]
         IN  IF {"product_amount", "quantity", "order_id", "product_name"}
                    \subseteq processed[2].cols
             THEN Pair(Returned(CategorySummary(processed[2].rows, category_col)),
                       category_col)
             ELSE Raised("KeyError")

\* analyzer.analyze_categories()
AnalyzeCategories ==
    /\ wret' = analyze_categories(processed_data)
    /\ last' = <<"analyze_categories", <<>>>>
    /\ UNCHANGED <<data, processed_data, current_month, previous_month, df, df2, ret>>

\* main: category_summary, category_col = analyzer.analyze_categories();
\* unpacking an empty DataFrame into two names raises ValueError
unpack_categories(processed) ==
    LET r == analyze_categories(processed)
    IN  IF r = EmptyDataFrame THEN Raised("ValueError") ELSE r

\* the category section of main
ShowCategories ==
    /\ wret' = unpack_categories(processed_data)
    /\ last' = <<"show_categories", <<>>>>
    /\ UNCHANGED <<data, processed_data, current_month, previous_month, df, df2, ret>>

(***************************************************************************)
(* Sheets with category columns                                            *)
(***************************************************************************)
MaxCategoryRows == 2

\* rows with a first-level category and a shop category, either may be missing
CategoryRows ==
    [yiji_pinlei : {Str(<<"C">>), NaN},
     dianpu_leimu : {Str(<<"D">>), NaN},
     shangpin_zhongwen_mingcheng : {Str(<<"A">>)},
     shangpin_zongjine : {Num(0), Num(1500)},
     shangpin_xiaoshou_danjia : {Num(0)},
     shangpin_shuliang : {Num(2000)},
     dingdan_bianhao : {Num(1000)}]

\* rows of a sheet without a category column
PlainRows ==
    [shangpin_zhongwen_mingcheng : {Str(<<"A">>)},
     shangpin_zongjine : {Num(0), Num(1500)},
     shangpin_xiaoshou_danjia : {Num(0)},
     shangpin_shuliang : {Num(2000)},
     dingdan_bianhao : {Num(1000)}]

InitCategories ==
    /\ \E rowset \in {CategoryRows, PlainRows} : IsSheetOf(data, rowset, MaxCategoryRows)
    /\ processed_data = None
    /\ current_month = None
    /\ previous_month = None
    /\ wret = NoCall
    /\ last = <<"init", <<>>>>
    /\ ShopIdle

NextCategories == PreprocessData \/ AnalyzeCategories \/ ShowCategories

SpecCategories == InitCategories /\ [][NextCategories]_vars

\* C29 (as claimed): analyze_categories returns a two-element result in
\* every case, with an empty summary when there is nothing to summarise, so
\* the caller's unpacking never fails.
C29_AlwaysAPair ==
    /\ last[1] = "analyze_categories" => wret[1] = "pair"
    /\ last[1] = "show_categories" => wret[1] # "raise"

(***************************************************************************)
(* All analysis operations, before and after preprocess_data               *)
(***************************************************************************)
MaxAnyRows == 2

\* dated rows with a shipping fee and an SKU
AnyRows ==
    [riqi : {Date(2024, 1, 15), Date(2024, 2, 10)},
     dingdan_bianhao : {Num(1000)},
     SKU : {Str(<<"X", "S">>), NaN},
     yiji_pinlei : {Str(<<"C">>)},
     shangpin_zhongwen_mingcheng : {Str(<<"A">>)},
     shangpin_zongjine : {Num(1500)},
     shangpin_xiaoshou_danjia : {Num(0)},
     shangpin_shuliang : {Num(2000)},
     yunfei_shouru : {Num(5000)}]

\* rows with amount and quantity but no unit price: preprocess_data raises
PricelessRows ==
    [shangpin_zhongwen_mingcheng : {Str(<<"A">>)},
     shangpin_zongjine : {Num(1500)},
     shangpin_shuliang : {Num(2000)}]

InitAny ==
    /\ \E rowset \in {AnyRows, PricelessRows} : IsSheetOf(data, rowset, MaxAnyRows)
    /\ processed_data = None
    /\ current_month = None
    /\ previous_month = None
    /\ wret = NoCall
    /\ last = <<"init", <<>>>>
    /\ ShopIdle

NextAny ==
    \/ PreprocessData
    \/ GetSummaryMetrics
    \/ AnalyzeProducts
    \/ AnalyzeMonthlyComparison
    \/ AnalyzeCategories
    \/ AnalyzeShipping
    \/ AnalyzeSizePerformance
    \/ AnalyzeDailyTrends

SpecAny == InitAny /\ [][NextAny]_vars

AnalysisOperations ==
    {"get_summary_metrics", "analyze_products", "analyze_monthly_comparison",
     "analyze_categories", "analyze_shipping", "analyze_size_performance",
     "analyze_daily_trends"}

\* C28: while processed_data is None every analysis operation returns an
\* empty or absent result (an empty table, an empty dictionary or three
\* Nones), raises nothing, and leaves current_month and previous_month unset.
C28_NothingBeforePreprocess ==
    (processed_data = None /\ last[1] \in AnalysisOperations) =>
        /\ wret \in {EmptyDataFrame, Dict(EmptyMap), NoneTriple}
        /\ wret[1] # "raise"
        /\ current_month = None
        /\ previous_month = None

\* the size analysis was called on a sheet that preprocess_data cannot
\* process, so that processed_data is None before and after preprocess_data
C28_Witness ==
    /\ processed_data = None
    /\ "shangpin_xiaoshou_danjia" \notin data.cols
    /\ last[1] = "analyze_size_performance"
    /\ wret = EmptyDataFrame

====
